---- MODULE Spec2Model ----
(***************************************************************************)
(* A model of the Agent Core of mowzio: the Memory variants                *)
(* (InMemoryWindowBufferMemory, PersistedWindowBufferMemory over a Redis   *)
(* list, InMemoryStrategy), the generation client (LlmClient.chat) and the *)
(* Agent (parse_tool_call, execute_tool, process).                         *)
(*                                                                         *)
(* A text (message content, generated response) is a sequence of tokens.   *)
(* A Message (dataclass, fields content, role) is the pair                 *)
(* <<content, role>>; a dict {"role": r, "content": c} is a record; a JSON *)
(* string is a value wrapped by dumps.                                     *)
(***************************************************************************)
EXTENDS Integers, Sequences, FiniteSets, TLC

VARIABLES
    variant,          \* the class of the Memory object the client holds
    window_size,      \* Memory._window_size
    messages,         \* InMemoryWindowBufferMemory._messages (deque)
    system_message,   \* InMemoryWindowBufferMemory._system_message (<<>> is None)
    lists,            \* the store's lists: key -> list of strings
    message_history,  \* InMemoryStrategy._message_history
    tools,            \* the names of the tools given to the Agent, in order
    writers,          \* the add_message calls in progress on the store
    loop,             \* the handler invocations of the event loop and the
                      \* one that holds the loop's thread (0: none)
    clients,          \* the Memory objects of the process and the generation
                      \* clients that hold a reference to one of them
    outbox,           \* the texts sent to the chat while the last update was
                      \* handled, oldest first
    fake_redis,       \* the dictionaries of the FakeRedisAdapter, or the keys of the
                      \* store behind the RedisAdapter, and the clock
    call,             \* the last operation called and what its caller observed
    hist              \* history of the add calls made on a fresh Memory

vars == <<variant, window_size, messages, system_message, lists,
          message_history, tools, writers, loop, clients, outbox, fake_redis,
          call, hist>>

-----------------------------------------------------------------------------
(* Bounds *)

\* largest window size a Memory is constructed with
MaxWindow == 2
\* largest number of messages a Memory may hold after an operation
MaxLog == 3
\* longest sequence of non-system adds whose messages are recorded
MaxTrack == 3
\* non-system adds counted beyond the window size (spec.md, 8: N+5 adds)
ExtraAdds == 5
\* largest number of messages a Memory may hold after Agent.process
MaxAgentLog == 5
\* largest window size of the Memory an Agent is constructed over
MaxAgentWindow == 1
\* a window size of the Agent's Memory with room for the four messages of a
\* tool round trip
RoundTripWindow == 4

\* the number of list operations a caller applies to one returned list
MaxListOps == 2

\* the handler invocations on the event loop
MaxTasks == 3

\* the store calls of one process call among which the first failing one is
\* drawn
MaxStoreCalls == 20

-----------------------------------------------------------------------------
(* Messages *)

Roles == {"system", "user", "assistant"}

Variants == {"InMemoryWindowBufferMemory", "PersistedWindowBufferMemory",
             "InMemoryStrategy"}

\* Message(role=..., content=...): the dataclass's fields are content, role
Message(role, content) == <<content, role>>

to_dict(m) == [role |-> m[2], content |-> m[1]]

from_dict(message_dict) == Message(message_dict.role, message_dict.content)

\* json.dumps / json.loads of a dict
dumps(d) == [json |-> d]

loads(s) == s.json

to_json(m) == dumps(to_dict(m))

from_json(s) == from_dict(loads(s))

\* the value a client stores: LlmClient builds Message objects, LlmInterface
\* (over a MemoryStrategy) builds dicts
NewMessage(role, content) ==
    IF variant = "InMemoryStrategy"
    THEN [role |-> role, content |-> content]
    ELSE Message(role, content)

RoleOf(m) == IF variant = "InMemoryStrategy" THEN m.role ELSE m[2]

ContentOf(m) == IF variant = "InMemoryStrategy" THEN m.content ELSE m[1]

-----------------------------------------------------------------------------
(* The store's list primitives (FakeRedisAdapter) *)

messages_key == "chat:memory:messages"

rpush(l, name, value) ==
    IF name \in DOMAIN l
    THEN [l EXCEPT ![name] = Append(@, value)]
    ELSE [k \in (DOMAIN l) \cup {name} |->
            IF k = name THEN <<value>> ELSE l[k]]

lrange(l, name) == IF name \in DOMAIN l THEN l[name] ELSE <<>>

delete(l, name) == [k \in (DOMAIN l) \ {name} |-> l[k]]

RECURSIVE rpush_all(_, _, _)
rpush_all(l, name, values) ==
    IF values = <<>> THEN l
    ELSE rpush_all(rpush(l, name, Head(values)), name, Tail(values))

-----------------------------------------------------------------------------
(* Memory: a memory state is the record of the three classes' fields *)

Mem == [messages |-> messages, system_message |-> system_message,
        lists |-> lists, message_history |-> message_history]

EmptyMem == [messages |-> <<>>, system_message |-> <<>>,
             lists |-> <<>>, message_history |-> <<>>]

RECURSIVE popleft_while(_)
popleft_while(q) ==
    IF Len(q) > window_size THEN popleft_while(Tail(q)) ELSE q

\* InMemoryWindowBufferMemory.add_message
inmem_add_message(m, msg) ==
    IF msg[2] = "system"
    THEN [m EXCEPT !.system_message = <<msg>>]
    ELSE [m EXCEPT !.messages = popleft_while(Append(@, msg))]

inmem_get_messages(m) == m.system_message \o m.messages

\* a clear_messages that keeps the system message when none is given
inmem_clear_keeping_system(m, system_prompt) ==
    [m EXCEPT !.messages = <<>>,
              !.system_message =
                  IF system_prompt # <<>> /\ system_prompt[1][2] = "system"
                  THEN system_prompt ELSE @]

inmem_clear_messages(m, system_prompt) ==
    [m EXCEPT !.messages = <<>>,
              !.system_message =
                  IF system_prompt # <<>> /\ system_prompt[1][2] = "system"
                  THEN system_prompt ELSE <<>>]

inmem_remove_last_message(m) ==
    IF m.messages # <<>>
    THEN [m EXCEPT !.messages = SubSeq(@, 1, Len(@) - 1)]
    ELSE m

\* a get_messages that reads a buffer of the instance instead of the store
persisted_get_buffered(m) == m.messages

\* PersistedWindowBufferMemory.get_messages
persisted_get_messages(m) ==
    LET serialized_messages == lrange(m.lists, messages_key)
    IN  [i \in 1..Len(serialized_messages) |-> from_json(serialized_messages[i])]

\* PersistedWindowBufferMemory.__init__ over the store of m: the instance
\* holds the window size, the adapter and the key, and no message
persisted_init(m) == [EmptyMem EXCEPT !.lists = m.lists]

\* The key of the list of the PersistedWindowBufferMemory constructed for a
\* conversation: the handlers construct it without arguments and __init__
\* builds the key from the prefix alone
conversation_key(conversation) == messages_key

\* get_messages of the PersistedWindowBufferMemory constructed for a
\* conversation over the store
conversation_get_messages(l, conversation) ==
    LET serialized_messages == lrange(l, conversation_key(conversation))
    IN  [i \in 1..Len(serialized_messages) |-> from_json(serialized_messages[i])]

\* seq[-n:] of Python
LastSlice(seq, n) ==
    IF n = 0 \/ n >= Len(seq) THEN seq
    ELSE SubSeq(seq, Len(seq) - n + 1, Len(seq))

\* list.index(x): the first position holding a value equal to x
index(seq, x) == CHOOSE i \in 1..Len(seq) :
                    /\ seq[i] = x
                    /\ \A j \in 1..(i - 1) : seq[j] # x

\* insertion into a list sorted by all_messages.index, after the equal keys
RECURSIVE insert_by_index(_, _, _)
insert_by_index(sorted, x, all_messages) ==
    IF sorted = <<>> THEN <<x>>
    ELSE IF index(all_messages, Head(sorted)) <= index(all_messages, x)
         THEN <<Head(sorted)>> \o insert_by_index(Tail(sorted), x, all_messages)
         ELSE <<x>> \o sorted

\* preserved_messages.sort(key=lambda m: all_messages.index(m)): a stable sort
RECURSIVE sort_by_index(_, _)
sort_by_index(seq, all_messages) ==
    IF seq = <<>> THEN <<>>
    ELSE insert_by_index(
            sort_by_index(SubSeq(seq, 1, Len(seq) - 1), all_messages),
            seq[Len(seq)], all_messages)

IsSystem(x) == x[2] = "system"

NotSystem(x) == x[2] # "system"

map_to_json(seq) == [i \in 1..Len(seq) |-> to_json(seq[i])]

\* PersistedWindowBufferMemory.add_message
persisted_add_message(m, msg) ==
    LET pushed == [m EXCEPT !.lists = rpush(@, messages_key, to_json(msg))]
        all_messages == persisted_get_messages(pushed)
        system_messages == SelectSeq(all_messages, IsSystem)
        non_system_count == Len(all_messages) - Len(system_messages)
        non_system_messages == SelectSeq(all_messages, NotSystem)
        preserved_messages ==
            sort_by_index(
                system_messages \o LastSlice(non_system_messages, window_size),
                all_messages)
    IN  IF non_system_count > window_size
        THEN [m EXCEPT !.lists =
                rpush_all(delete(pushed.lists, messages_key), messages_key,
                          map_to_json(preserved_messages))]
        ELSE pushed

persisted_clear_messages(m, system_prompt) ==
    LET deleted == delete(m.lists, messages_key)
    IN  [m EXCEPT !.lists =
            IF system_prompt # <<>>
            THEN rpush(deleted, messages_key, to_json(system_prompt[1]))
            ELSE deleted]

\* a remove_last_message that does not look at the role of the last message
persisted_remove_last_any(m) ==
    LET msgs == persisted_get_messages(m)
    IN  IF msgs = <<>> THEN m
        ELSE [m EXCEPT !.lists =
                rpush_all(delete(@, messages_key), messages_key,
                          map_to_json(SubSeq(msgs, 1, Len(msgs) - 1)))]

persisted_remove_last_message(m) ==
    LET msgs == persisted_get_messages(m)
    IN  IF msgs = <<>> THEN m
        ELSE IF msgs[Len(msgs)][2] # "system"
             THEN [m EXCEPT !.lists =
                     rpush_all(delete(@, messages_key), messages_key,
                               map_to_json(SubSeq(msgs, 1, Len(msgs) - 1)))]
             ELSE m

-----------------------------------------------------------------------------
(* The persisted Memory over a store whose calls can fail.  A connection c
   holds the store's lists, the number of store calls made, whether an
   exception is propagating, and the value the last call returned.  A fault
   names the first store call that fails and whether the later ones fail
   too; first = 0 is a store without failure. *)

\* Then(value), the value computed once: the statements after a store call
\* see the one connection the call left
Once(value, Then(_)) == CHOOSE result \in {Then(v) : v \in {value}} : TRUE

Connection(l) == [lists |-> l, calls |-> 0, raised |-> FALSE, value |-> <<>>]

Fails(fault, n) ==
    /\ fault.first > 0
    /\ \/ n = fault.first
       \/ n > fault.first /\ ~fault.transient

\* an lrange that returns the empty list when the store fails
adapter_lrange_swallowing(c, fault, name) ==
    IF c.raised THEN c
    ELSE IF Fails(fault, c.calls + 1)
    THEN [c EXCEPT !.calls = @ + 1, !.value = <<>>]
    ELSE [c EXCEPT !.calls = @ + 1, !.value = lrange(c.lists, name)]

\* RedisAdapter.rpush: a RedisError leaves the call as an exception; a
\* statement reached while an exception propagates is not executed
adapter_rpush(c, fault, name, value) ==
    IF c.raised THEN c
    ELSE IF Fails(fault, c.calls + 1)
    THEN [c EXCEPT !.calls = @ + 1, !.raised = TRUE]
    ELSE [c EXCEPT !.calls = @ + 1, !.lists = rpush(@, name, value)]

\* RedisAdapter.lrange
adapter_lrange(c, fault, name) ==
    IF c.raised THEN c
    ELSE IF Fails(fault, c.calls + 1)
    THEN [c EXCEPT !.calls = @ + 1, !.raised = TRUE]
    ELSE [c EXCEPT !.calls = @ + 1, !.value = lrange(c.lists, name)]

\* RedisAdapter.delete
adapter_delete(c, fault, name) ==
    IF c.raised THEN c
    ELSE IF Fails(fault, c.calls + 1)
    THEN [c EXCEPT !.calls = @ + 1, !.raised = TRUE]
    ELSE [c EXCEPT !.calls = @ + 1, !.lists = delete(@, name)]

\* for msg in ...: self._redis.rpush(self._messages_key, msg.to_json())
RECURSIVE adapter_rpush_all(_, _, _, _)
adapter_rpush_all(c, fault, name, values) ==
    IF values = <<>> THEN c
    ELSE adapter_rpush_all(adapter_rpush(c, fault, name, Head(values)),
                           fault, name, Tail(values))

\* PersistedWindowBufferMemory.get_messages: value holds the messages
unreliable_get_messages(c, fault) ==
    LET got == adapter_lrange(c, fault, messages_key)
    IN  IF got.raised THEN got
        ELSE [got EXCEPT !.value =
                [i \in 1..Len(got.value) |-> from_json(got.value[i])]]

\* PersistedWindowBufferMemory.add_message
unreliable_add_message(c, fault, msg) ==
    LET limit(got) ==
            LET all_messages == got.value
                system_messages == SelectSeq(all_messages, IsSystem)
                non_system_count == Len(all_messages) - Len(system_messages)
                non_system_messages == SelectSeq(all_messages, NotSystem)
                preserved_messages ==
                    sort_by_index(
                        system_messages \o LastSlice(non_system_messages, window_size),
                        all_messages)
            IN  IF got.raised THEN got
                ELSE IF non_system_count > window_size
                THEN adapter_rpush_all(adapter_delete(got, fault, messages_key),
                                       fault, messages_key,
                                       map_to_json(preserved_messages))
                ELSE got
    IN  Once(unreliable_get_messages(
                 adapter_rpush(c, fault, messages_key, to_json(msg)), fault),
             limit)

\* PersistedWindowBufferMemory.remove_last_message
unreliable_remove_last_message(c, fault) ==
    LET rebuild(got) ==
            LET msgs == got.value
            IN  IF got.raised \/ msgs = <<>> THEN got
                ELSE IF msgs[Len(msgs)][2] # "system"
                     THEN adapter_rpush_all(adapter_delete(got, fault, messages_key),
                                            fault, messages_key,
                                            map_to_json(SubSeq(msgs, 1, Len(msgs) - 1)))
                     ELSE got
    IN  Once(unreliable_get_messages(c, fault), rebuild)

\* InMemoryStrategy
strategy_add_message(m, msg) ==
    [m EXCEPT !.message_history = Append(@, msg)]

strategy_get_messages(m) == m.message_history

strategy_clear_messages(m, system_prompt) ==
    [m EXCEPT !.message_history = system_prompt]

strategy_remove_last_message(m) ==
    IF m.message_history # <<>>
       /\ m.message_history[Len(m.message_history)].role # "system"
    THEN [m EXCEPT !.message_history = SubSeq(@, 1, Len(@) - 1)]
    ELSE m

\* Memory.add_message, dispatched on the object's class
add_message(m, msg) ==
    CASE variant = "InMemoryWindowBufferMemory" -> inmem_add_message(m, msg)
      [] variant = "PersistedWindowBufferMemory" -> persisted_add_message(m, msg)
      [] variant = "InMemoryStrategy" -> strategy_add_message(m, msg)

get_messages(m) ==
    CASE variant = "InMemoryWindowBufferMemory" -> inmem_get_messages(m)
      [] variant = "PersistedWindowBufferMemory" -> persisted_get_messages(m)
      [] variant = "InMemoryStrategy" -> strategy_get_messages(m)

\* The list object get_messages returns: its items, and the attribute of the
\* memory that is the very same object ("" when the list is a new object).
\* all_messages is a list built in the call
inmem_returned_list(m) == [items |-> inmem_get_messages(m), alias |-> ""]

\* the list comprehension over lrange builds a new list
persisted_returned_list(m) == [items |-> persisted_get_messages(m), alias |-> ""]

\* a get_messages that returns self._message_history itself
strategy_returned_history(m) ==
    [items |-> strategy_get_messages(m), alias |-> "message_history"]

\* self._message_history.copy()
strategy_returned_list(m) == [items |-> strategy_get_messages(m), alias |-> ""]

returned_list(m) ==
    CASE variant = "InMemoryWindowBufferMemory" -> inmem_returned_list(m)
      [] variant = "PersistedWindowBufferMemory" -> persisted_returned_list(m)
      [] variant = "InMemoryStrategy" -> strategy_returned_list(m)

\* the memory after its caller changed a list object to hold items: an
\* attribute that is the same object changes with it
write_list(m, list, items) ==
    IF list.alias = "message_history"
    THEN [m EXCEPT !.message_history = items]
    ELSE m

\* list.append(x), list.pop(i) (i counted from 1) and list.reverse()
list_append(l, x) == Append(l, x)

list_pop(l, i) == SubSeq(l, 1, i - 1) \o SubSeq(l, i + 1, Len(l))

list_reverse(l) == [i \in 1..Len(l) |-> l[Len(l) + 1 - i]]

\* system_prompt is <<>> (None) or <<message>>
clear_messages(m, system_prompt) ==
    CASE variant = "InMemoryWindowBufferMemory" -> inmem_clear_messages(m, system_prompt)
      [] variant = "PersistedWindowBufferMemory" -> persisted_clear_messages(m, system_prompt)
      [] variant = "InMemoryStrategy" -> strategy_clear_messages(m, system_prompt)

remove_last_message(m) ==
    CASE variant = "InMemoryWindowBufferMemory" -> inmem_remove_last_message(m)
      [] variant = "PersistedWindowBufferMemory" -> persisted_remove_last_message(m)
      [] variant = "InMemoryStrategy" -> strategy_remove_last_message(m)

-----------------------------------------------------------------------------
(* The generation client: LlmClient (LlmInterface has the same code over
   dicts) *)

Failures == {"RateLimitError", "APIConnectionError", "APIError", "Exception"}

\* what client.chat.completions.create does: raise one of Failures, or return
\* a response with content, without choices, without message, or with
\* content None
Outcome(kind, content) == [kind |-> kind, content |-> content]

\* LlmClient.__init__: the system prompt is added to the memory
client_init(m, system_prompt) ==
    add_message(m, NewMessage("system", system_prompt))

\* a chat that does not store the response
chat_without_assistant(m, user_message, outcome) ==
    LET added == add_message(m, NewMessage("user", user_message))
        messages_dict == get_messages(added)
        assistant_response_content ==
            IF outcome.kind = "content" THEN outcome.content ELSE <<>>
    IN  IF outcome.kind \in Failures
        THEN [mem |-> remove_last_message(added), raised |-> outcome.kind,
              returned |-> <<>>, request |-> messages_dict]
        ELSE [mem |-> added,
              raised |-> "", returned |-> assistant_response_content,
              request |-> messages_dict]

\* a chat that stores no assistant message for a response without content
chat_without_empty_assistant(m, user_message, outcome) ==
    LET added == add_message(m, NewMessage("user", user_message))
        messages_dict == get_messages(added)
        assistant_response_content ==
            IF outcome.kind = "content" THEN outcome.content ELSE <<>>
    IN  IF outcome.kind \in Failures
        THEN [mem |-> remove_last_message(added), raised |-> outcome.kind,
              returned |-> <<>>, request |-> messages_dict]
        ELSE IF outcome.kind # "content"
        THEN [mem |-> added, raised |-> "", returned |-> <<>>,
              request |-> messages_dict]
        ELSE [mem |-> add_message(added,
                         NewMessage("assistant", assistant_response_content)),
              raised |-> "", returned |-> assistant_response_content,
              request |-> messages_dict]

\* LlmClient.chat; the result holds the memory after the call, the exception
\* raised ("" if none), the value returned and the messages sent
chat(m, user_message, outcome) ==
    LET added == add_message(m, NewMessage("user", user_message))
        messages_dict == get_messages(added)
        assistant_response_content ==
            IF outcome.kind = "content" THEN outcome.content ELSE <<>>
    IN  IF outcome.kind \in Failures
        THEN [mem |-> remove_last_message(added), raised |-> outcome.kind,
              returned |-> <<>>, request |-> messages_dict]
        ELSE [mem |-> add_message(added,
                         NewMessage("assistant", assistant_response_content)),
              raised |-> "", returned |-> assistant_response_content,
              request |-> messages_dict]

\* the except clauses of LlmClient.chat: remove_last_message() and raise
chat_except(c, fault) ==
    [unreliable_remove_last_message([c EXCEPT !.raised = FALSE], fault)
        EXCEPT !.raised = TRUE]

\* LlmClient.chat over a PersistedWindowBufferMemory whose store can fail:
\* the connection after the call, whether an exception left the call, and
\* the value returned
unreliable_chat(c, fault, user_message, outcome) ==
    LET assistant_response_content ==
            IF outcome.kind = "content" THEN outcome.content ELSE <<>>
        after_response(stored) ==
            IF stored.raised
            THEN [c |-> chat_except(stored, fault), raised |-> TRUE,
                  returned |-> <<>>, requested |-> TRUE]
            ELSE [c |-> stored, raised |-> FALSE,
                  returned |-> assistant_response_content, requested |-> TRUE]
        after_get_messages(read) ==
            IF read.raised
            THEN [c |-> chat_except(read, fault), raised |-> TRUE,
                  returned |-> <<>>, requested |-> FALSE]
            ELSE IF outcome.kind \in Failures
            THEN [c |-> chat_except(read, fault), raised |-> TRUE,
                  returned |-> <<>>, requested |-> TRUE]
            ELSE Once(unreliable_add_message(
                          read, fault,
                          Message("assistant", assistant_response_content)),
                      after_response)
        after_add_message(added) ==
            IF added.raised
            THEN [c |-> added, raised |-> TRUE, returned |-> <<>>, requested |-> FALSE]
            ELSE Once(unreliable_get_messages(added, fault), after_get_messages)
    IN  Once(unreliable_add_message(c, fault, Message("user", user_message)),
             after_add_message)

\* LlmClient.clear_message_history
clear_message_history(m, system_prompt) ==
    clear_messages(m, <<NewMessage("system", system_prompt)>>)

-----------------------------------------------------------------------------------------------------------------------------------------------------
(* Texts and JSON.  A text is a sequence of tokens: the fence tagged tool,
   the bare fence, the newline, the space, words, and JSON documents. *)

\* three backquotes are written ~~~ here
OPEN == "~~~tool"

FENCE == "~~~"

NL == "\n"

SP == " "

\* Python values decoded from JSON
PyNone == [type |-> "NoneType"]

PyStr(s) == [type |-> "str", str |-> s]

PyInt(n) == [type |-> "int", int |-> n]

PyList(items) == [type |-> "list", items |-> items]

PyDict(keys, name, parameters) ==
    [type |-> "dict", keys |-> keys, name |-> name, parameters |-> parameters]

\* the dict {"expression": e}, the empty dict, the dict {"x": "1"}
Expression(e) == [type |-> "dict", keys |-> {"expression"}, expression |-> PyStr(e)]

EmptyDict == [type |-> "dict", keys |-> {}]

OtherDict == [type |-> "dict", keys |-> {"x"}, x |-> PyStr("1")]

DocCalc == "{\"name\": \"calculator\", \"parameters\": {\"expression\": \"2+2\"}}"

DocCalcZero == "{\"name\": \"calculator\", \"parameters\": {\"expression\": \"1/0\"}}"

DocCalcExit == "{\"name\": \"calculator\", \"parameters\": {\"expression\": \"abs.__self__.exit()\"}}"

DocCalcNoParams == "{\"name\": \"calculator\"}"

DocCalcNullParams == "{\"name\": \"calculator\", \"parameters\": null}"

DocTime == "{\"name\": \"get_current_time\", \"parameters\": {}}"

DocTimeExtra == "{\"name\": \"get_current_time\", \"parameters\": {\"x\": \"1\"}}"

DocUnknown == "{\"name\": \"nonexistent\", \"parameters\": {}}"

DocNoName == "{\"parameters\": {\"expression\": \"2+2\"}}"

DocEmptyObject == "{}"

DocNullName == "{\"name\": null}"

DocListName == "{\"name\": [\"calculator\"]}"

DocList == "[1]"

DocNull == "null"

DocString == "\"calculator\""

DocNumber == "42"

ObjectDocs == {DocCalc, DocCalcZero, DocCalcExit, DocCalcNoParams, DocCalcNullParams, DocTime,
               DocTimeExtra, DocUnknown, DocNoName, DocEmptyObject, DocNullName,
               DocListName}

Docs == ObjectDocs \cup {DocList, DocNull, DocString, DocNumber}

\* the value json.loads gives for a document
Decode(doc) ==
    CASE doc = DocCalc -> PyDict({"name", "parameters"}, PyStr("calculator"), Expression("2+2"))
      [] doc = DocCalcZero -> PyDict({"name", "parameters"}, PyStr("calculator"), Expression("1/0"))
      [] doc = DocCalcExit ->
             PyDict({"name", "parameters"}, PyStr("calculator"),
                    Expression("abs.__self__.exit()"))
      [] doc = DocCalcNoParams -> PyDict({"name"}, PyStr("calculator"), PyNone)
      [] doc = DocCalcNullParams -> PyDict({"name", "parameters"}, PyStr("calculator"), PyNone)
      [] doc = DocTime -> PyDict({"name", "parameters"}, PyStr("get_current_time"), EmptyDict)
      [] doc = DocTimeExtra -> PyDict({"name", "parameters"}, PyStr("get_current_time"), OtherDict)
      [] doc = DocUnknown -> PyDict({"name", "parameters"}, PyStr("nonexistent"), EmptyDict)
      [] doc = DocNoName -> PyDict({"parameters"}, PyNone, Expression("2+2"))
      [] doc = DocEmptyObject -> PyDict({}, PyNone, PyNone)
      [] doc = DocNullName -> PyDict({"name"}, PyNone, PyNone)
      [] doc = DocListName -> PyDict({"name"}, PyList(<<PyStr("calculator")>>), PyNone)
      [] doc = DocList -> PyList(<<PyInt(1)>>)
      [] doc = DocNull -> PyNone
      [] doc = DocString -> PyStr("calculator")
      [] doc = DocNumber -> PyInt(42)

IsSpace(t) == t \in {NL, SP}

\* a token that starts with three backquotes
IsFence(t) == t \in {FENCE, OPEN}

RECURSIVE lstrip(_)
lstrip(text) ==
    IF text # <<>> /\ IsSpace(Head(text)) THEN lstrip(Tail(text)) ELSE text

RECURSIVE rstrip(_)
rstrip(text) ==
    IF text # <<>> /\ IsSpace(text[Len(text)])
    THEN rstrip(SubSeq(text, 1, Len(text) - 1)) ELSE text

\* json.loads(body): one document, with whitespace around it allowed;
\* anything else raises
json_loads(body) ==
    LET stripped == rstrip(lstrip(body))
    IN  IF Len(stripped) = 1 /\ stripped[1] \in Docs
        THEN [raised |-> FALSE, value |-> Decode(stripped[1])]
        ELSE [raised |-> TRUE, value |-> PyNone]

\* d.get(key): raises (AttributeError) unless d is a dict
HasGet(value) == value.type = "dict"

\* str(value), as an f-string formats it
Str(value) ==
    CASE value.type = "str" -> value.str
      [] value.type = "NoneType" -> "None"
      [] value.type = "int" -> "42"
      [] value.type = "list" -> "['calculator']"
      [] value.type = "dict" -> "{...}"

-----------------------------------------------------------------------------
(* re.search(r'~~~tool\s*\n(.*?)\n~~~', text, re.DOTALL) on tokens *)

\* the positions j of a newline that can end the opening tag at i: only
\* white space between the tag and j
RECURSIVE OpenEnds(_, _, _)
OpenEnds(text, i, j) ==
    IF j > Len(text) \/ ~IsSpace(text[j]) THEN {}
    ELSE (IF text[j] = NL THEN {j} ELSE {}) \cup OpenEnds(text, i, j + 1)

\* the positions k of a newline followed by three backquotes
Closes(text) ==
    {k \in 1..(Len(text) - 1) : text[k] = NL /\ IsFence(text[k + 1])}

Min(S) == CHOOSE x \in S : \A y \in S : x <= y

Max(S) == CHOOSE x \in S : \A y \in S : x >= y

\* a search whose pattern lacks the newline after the tag:
\* r'~~~tool\s*(.*?)\n~~~'
search_without_newline(text) ==
    LET closes == Closes(text)
        starts == {i \in 1..Len(text) :
                     text[i] = OPEN /\ \E k \in closes : i < k}
    IN  IF starts = {} THEN [found |-> FALSE, group1 |-> <<>>]
        ELSE LET i == Min(starts)
                 k == Min({z \in closes : i < z})
             IN  [found |-> TRUE, group1 |-> lstrip(SubSeq(text, i + 1, k - 1))]

\* a search that gives the last match of the text, not the first
search_last(text) ==
    LET closes == Closes(text)
        ends(i) == {j \in OpenEnds(text, i, i + 1) : \E k \in closes : j < k}
        starts == {i \in 1..Len(text) : text[i] = OPEN /\ ends(i) # {}}
    IN  IF starts = {} THEN [found |-> FALSE, group1 |-> <<>>]
        ELSE LET i == Max(starts)
                 j == Max(ends(i))
                 k == Min({z \in closes : j < z})
             IN  [found |-> TRUE, group1 |-> SubSeq(text, j + 1, k - 1)]

\* the leftmost match: \s* is greedy, giving back until a newline that a
\* closing fence follows, and (.*?) is lazy, ending at the first closing fence
search(text) ==
    LET closes == Closes(text)
        ends(i) == {j \in OpenEnds(text, i, i + 1) : \E k \in closes : j < k}
        starts == {i \in 1..Len(text) : text[i] = OPEN /\ ends(i) # {}}
    IN  IF starts = {} THEN [found |-> FALSE, group1 |-> <<>>]
        ELSE LET i == Min(starts)
                 j == Max(ends(i))
                 k == Min({z \in closes : j < z})
             IN  [found |-> TRUE, group1 |-> SubSeq(text, j + 1, k - 1)]

-----------------------------------------------------------------------------
(* Tools *)

calculator == "calculator"

get_current_time == "get_current_time"

ToolNames == {calculator, get_current_time}

\* the tool's description property
description(tool) ==
    IF tool = calculator
    THEN "Evaluates mathematical expressions. Use this for calculations."
    ELSE "Gets the current date and time."

\* the names of the parameters of the tool's execute, in order
parameter_names(tool) == IF tool = calculator THEN <<"expression">> ELSE <<>>

\* the description of a parameter in the tool's parameters property
parameter_description(tool, param_name) ==
    IF tool = calculator THEN "The mathematical expression to evaluate"
    ELSE "Parameter"

\* the class of the values of the tool's parameters property: CalculatorTool
\* returns ToolParameter objects, the property of the base class builds dicts
parameter_details_class(tool) ==
    IF tool = calculator THEN "ToolParameter" ELSE "dict"

\* the expression language of the calculator's inputs: the syntax tree that
\* eval compiles from the text
Num(n) == [node |-> "num", name |-> "", n |-> n, args |-> <<>>]

Name(name) == [node |-> "name", name |-> name, n |-> 0, args |-> <<>>]

Attr(value, name) == [node |-> "attr", name |-> name, n |-> 0, args |-> <<value>>]

CallOf(func, args) == [node |-> "call", name |-> "", n |-> 0, args |-> <<func>> \o args]

BinOp(op, left, right) == [node |-> "binop", name |-> op, n |-> 0, args |-> <<left, right>>]

Invalid == [node |-> "invalid", name |-> "", n |-> 0, args |-> <<>>]

\* the keys of safe_dict
safe_dict == {"abs", "round", "max", "min", "sin", "cos", "tan", "asin", "acos",
              "atan", "sqrt", "log", "log10", "exp", "pi", "e"}

\* the objects an evaluation yields: numbers, the function abs of safe_dict,
\* the builtins module that abs.__self__ is, and the Quitter that the
\* module's exit is
Object(kind, n) == [kind |-> kind, n |-> n]

IsNumber(object) == object.kind \in {"int", "float"}

\* the objects that safe_dict and arithmetic on its values do not give
OutsideAllowList(object) == object.kind \in {"module", "Quitter"}

Returns(object, outside) ==
    [exc |-> "", text |-> "", value |-> object,
     outside |-> outside \/ OutsideAllowList(object)]

Raises(exc, text, outside) ==
    [exc |-> exc, text |-> text, value |-> Object("NoneType", 0), outside |-> outside]

\* getattr(object, name)
getattr(object, name, outside) ==
    CASE object.kind = "builtin_function_or_method" /\ name = "__self__" ->
             Returns(Object("module", 0), outside)
      [] object.kind = "module" /\ name = "exit" ->
             Returns(Object("Quitter", 0), outside)
      [] OTHER -> Raises("AttributeError", "object has no attribute", outside)

\* func(*args): abs of one number, Quitter.__call__ raising SystemExit
apply(func, args, outside) ==
    CASE func.kind = "Quitter" -> Raises("SystemExit", "", outside)
      [] func.kind = "builtin_function_or_method" ->
             IF Len(args) # 1
             THEN Raises("TypeError", "abs() takes exactly one argument", outside)
             ELSE IF ~IsNumber(args[1])
                  THEN Raises("TypeError", "bad operand type for abs()", outside)
                  ELSE Returns(args[1], outside)
      [] OTHER -> Raises("TypeError", "object is not callable", outside)

\* left + right, left / right
binary(op, left, right, outside) ==
    IF ~(IsNumber(left) /\ IsNumber(right))
    THEN Raises("TypeError", "unsupported operand type(s)", outside)
    ELSE IF op = "/"
         THEN IF right.n = 0
              THEN Raises("ZeroDivisionError", "division by zero", outside)
              ELSE Returns(Object("float", left.n \div right.n), outside)
         ELSE Returns(Object(IF "float" \in {left.kind, right.kind} THEN "float" ELSE "int",
                             left.n + right.n), outside)

\* the evaluation of a syntax tree with globals {"__builtins__": {}} and
\* locals safe_dict: operands left to right, the first exception ends it
RECURSIVE evaluate(_)
evaluate(expr) ==
    CASE expr.node = "invalid" -> Raises("SyntaxError", "invalid syntax", FALSE)
      [] expr.node = "num" -> Returns(Object("int", expr.n), FALSE)
      [] expr.node = "name" ->
             IF expr.name \notin safe_dict
             THEN Raises("NameError", "name is not defined", FALSE)
             ELSE IF expr.name = "abs"
                  THEN Returns(Object("builtin_function_or_method", 0), FALSE)
                  ELSE Returns(Object("float", 3), FALSE)
      [] expr.node = "attr" ->
             LET value == evaluate(expr.args[1])
             IN  IF value.exc # "" THEN value
                 ELSE getattr(value.value, expr.name, value.outside)
      [] expr.node = "call" ->
             LET func == evaluate(expr.args[1])
                 arg == IF Len(expr.args) > 1 THEN evaluate(expr.args[2]) ELSE func
             IN  IF func.exc # "" THEN func
                 ELSE IF Len(expr.args) = 1 THEN apply(func.value, <<>>, func.outside)
                 ELSE IF arg.exc # ""
                      THEN [arg EXCEPT !.outside = @ \/ func.outside]
                      ELSE apply(func.value, <<arg.value>>, func.outside \/ arg.outside)
      [] OTHER ->
             LET left == evaluate(expr.args[1])
                 right == evaluate(expr.args[2])
             IN  IF left.exc # "" THEN left
                 ELSE IF right.exc # ""
                      THEN [right EXCEPT !.outside = @ \/ left.outside]
                      ELSE binary(expr.name, left.value, right.value,
                                  left.outside \/ right.outside)

Digits == <<"0", "1", "2", "3", "4", "5", "6", "7", "8", "9">>

Floats == <<"0.0", "1.0", "2.0", "3.0", "4.0", "5.0", "6.0", "7.0", "8.0", "9.0">>

\* str(result)
str(object) ==
    CASE object.kind = "int" -> Digits[object.n + 1]
      [] object.kind = "float" -> Floats[object.n + 1]
      [] object.kind = "builtin_function_or_method" -> "<built-in function abs>"
      [] object.kind = "module" -> "<module 'builtins' (built-in)>"
      [] OTHER -> "Use exit() or Ctrl-D (i.e. EOF) to exit"

\* the exceptions that except Exception does not catch
BaseExceptions == {"SystemExit", "KeyboardInterrupt", "GeneratorExit"}

\* the syntax tree of an expression's text
compile(expression) ==
    CASE expression = "2+2" -> BinOp("+", Num(2), Num(2))
      [] expression = "1/0" -> BinOp("/", Num(1), Num(0))
      [] expression = "abs.__self__.exit()" ->
             CallOf(Attr(Attr(Name("abs"), "__self__"), "exit"), <<>>)
      [] OTHER -> Invalid

\* a calculator whose except clause is a bare except: SystemExit becomes an
\* error string too
execute_catching_all(expr) ==
    LET result == evaluate(expr)
    IN  [raised |-> "", outside |-> result.outside,
         returned |-> IF result.exc = "" THEN <<str(result.value)>>
                      ELSE <<"Error evaluating expression: ", result.text>>]

\* the body of CalculatorTool.execute on the syntax tree of its argument:
\* return str(result), except Exception return the error string
execute(expr) ==
    LET result == evaluate(expr)
    IN  IF result.exc = ""
        THEN [raised |-> "", returned |-> <<str(result.value)>>, outside |-> result.outside]
        ELSE IF result.exc \in BaseExceptions
             THEN [raised |-> result.exc, returned |-> <<>>, outside |-> result.outside]
             ELSE [raised |-> "", outside |-> result.outside,
                   returned |-> <<"Error evaluating expression: ", result.text>>]

\* eval(expression, {"__builtins__": {}}, safe_dict)
eval(expression) ==
    LET result == evaluate(compile(expression))
    IN  [raised |-> result.exc # "",
         text |-> IF result.exc # "" THEN result.text ELSE str(result.value)]

\* CalculatorTool.execute
calculator_execute(expression) ==
    IF expression.type # "str"
    THEN <<"Error evaluating expression: ", "eval() arg 1 must be a string">>
    ELSE LET result == eval(expression.str)
         IN  IF result.raised
             THEN <<"Error evaluating expression: ", result.text>>
             ELSE <<result.text>>

\* the exception that leaves CalculatorTool.execute
calculator_raises(expression) ==
    IF expression.type # "str" THEN ""
    ELSE execute(compile(expression.str)).raised

\* TimeTool.execute
time_execute(now) == <<"The current date and time in Tehran is: ", now>>

\* tool.execute(**parameters): the call raises TypeError, before execute
\* runs, unless parameters is a dict whose keys are the parameters of execute
Binds(tool, parameters) ==
    /\ parameters.type = "dict"
    /\ parameters.keys = {parameter_names(tool)[i] : i \in 1..Len(parameter_names(tool))}

BindError(tool, parameters) ==
    IF parameters.type # "dict" THEN "argument after ** must be a mapping"
    ELSE IF parameters.keys \subseteq {"expression"}
         THEN "missing 1 required positional argument: 'expression'"
         ELSE "got an unexpected keyword argument"

-----------------------------------------------------------------------------
(* Agent *)

BASE_AGENT_SYSTEM_PROMPT == "BASE_AGENT_SYSTEM_PROMPT"

RECURSIVE parameter_lines(_, _)
parameter_lines(tool, names) ==
    IF names = <<>> THEN <<>>
    ELSE <<"\n  - ", Head(names), ": ", parameter_description(tool, Head(names))>>
         \o parameter_lines(tool, Tail(names))

RECURSIVE tool_lines(_)
tool_lines(registered) ==
    IF registered = <<>> THEN <<>>
    ELSE <<"\n- ", Head(registered), ": ", description(Head(registered)),
           "\n  Parameters:">>
         \o parameter_lines(Head(registered), parameter_names(Head(registered)))
         \o tool_lines(Tail(registered))

\* param_details['description'] raises TypeError for an object that is not
\* subscriptable: _create_system_prompt raises for a tool with a parameter
\* whose details are a ToolParameter
create_system_prompt_raises(registered) ==
    \E i \in 1..Len(registered) :
        /\ parameter_names(registered[i]) # <<>>
        /\ parameter_details_class(registered[i]) # "dict"

\* Agent._create_system_prompt: the text built when every
\* param_details['description'] gives the description
create_system_prompt(registered) ==
    <<BASE_AGENT_SYSTEM_PROMPT>> \o tool_lines(registered)
    \o (IF registered = <<>> THEN <<"\nNo tools are currently available.">> ELSE <<>>)

\* a parse_tool_call without the except clause's return None: a body that
\* does not load as a dict gives a call without name
parse_tool_call_uncaught(text) ==
    LET match == search(text)
        loaded == json_loads(match.group1)
        tool_json == loaded.value
    IN  IF ~match.found THEN <<>>
        ELSE IF loaded.raised \/ ~HasGet(tool_json)
        THEN <<[name |-> PyNone, parameters |-> EmptyDict]>>
        ELSE <<[name |-> IF "name" \in tool_json.keys THEN tool_json.name ELSE PyNone,
                parameters |-> IF "parameters" \in tool_json.keys
                               THEN tool_json.parameters ELSE EmptyDict]>>

\* Agent.parse_tool_call: <<>> is None
parse_tool_call(text) ==
    LET match == search(text)
        loaded == json_loads(match.group1)
        tool_json == loaded.value
    IN  IF ~match.found THEN <<>>
        ELSE IF loaded.raised \/ ~HasGet(tool_json) THEN <<>>
        ELSE <<[name |-> IF "name" \in tool_json.keys THEN tool_json.name ELSE PyNone,
                parameters |-> IF "parameters" \in tool_json.keys
                               THEN tool_json.parameters ELSE EmptyDict]>>

\* key in self.tools; raises TypeError for an unhashable key
Hashable(value) == value.type \notin {"list", "dict"}

InTools(registered, value) ==
    /\ value.type = "str"
    /\ \E i \in 1..Len(registered) : registered[i] = value.str

\* an execute_tool without the try around execute(**parameters)
execute_tool_without_try(registered, tool_call, now) ==
    LET tool_name == tool_call.name
        parameters == tool_call.parameters
    IN  IF ~Hashable(tool_name)
        THEN [raised |-> "TypeError", result |-> <<>>, runs |-> <<>>]
        ELSE IF ~InTools(registered, tool_name)
        THEN [raised |-> "", runs |-> <<>>,
              result |-> <<"Error: Tool '", Str(tool_name), "' not found.">>]
        ELSE IF ~Binds(tool_name.str, parameters)
        THEN [raised |-> "TypeError", result |-> <<>>, runs |-> <<>>]
        ELSE IF tool_name.str = calculator
                /\ calculator_raises(parameters.expression) # ""
        THEN [raised |-> calculator_raises(parameters.expression),
              result |-> <<>>, runs |-> <<tool_name.str>>]
        ELSE [raised |-> "", runs |-> <<tool_name.str>>,
              result |-> IF tool_name.str = calculator
                         THEN calculator_execute(parameters.expression)
                         ELSE time_execute(now)]

\* Agent.execute_tool; runs lists the tools whose execute was called.  The
\* except clause names Exception: an exception of BaseExceptions that leaves
\* execute leaves execute_tool too
execute_tool(registered, tool_call, now) ==
    LET tool_name == tool_call.name
        parameters == tool_call.parameters
    IN  IF ~Hashable(tool_name)
        THEN [raised |-> "TypeError", result |-> <<>>, runs |-> <<>>]
        ELSE IF ~InTools(registered, tool_name)
        THEN [raised |-> "", runs |-> <<>>,
              result |-> <<"Error: Tool '", Str(tool_name), "' not found.">>]
        ELSE IF ~Binds(tool_name.str, parameters)
        THEN [raised |-> "", runs |-> <<>>,
              result |-> <<"Error executing tool '", Str(tool_name), "': ",
                           BindError(tool_name.str, parameters)>>]
        ELSE IF tool_name.str = calculator
                /\ calculator_raises(parameters.expression) # ""
        THEN [raised |-> calculator_raises(parameters.expression),
              result |-> <<>>, runs |-> <<tool_name.str>>]
        ELSE [raised |-> "", runs |-> <<tool_name.str>>,
              result |-> IF tool_name.str = calculator
                         THEN calculator_execute(parameters.expression)
                         ELSE time_execute(now)]

\* a process that parses the second response too and runs its tool call
process_parsing_again(m, registered, user_message, outcome1, outcome2, now) ==
    LET first == chat(m, user_message, outcome1)
        llm_response == first.returned
        tool_call == parse_tool_call(llm_response)
        executed == execute_tool(registered, tool_call[1], now)
        result_message ==
            <<"Tool '", Str(tool_call[1].name), "' returned: ">> \o executed.result
        second == chat(first.mem, result_message, outcome2)
        tool_call_again == parse_tool_call(second.returned)
        executed_again == execute_tool(registered, tool_call_again[1], now)
        third == chat(second.mem,
                      <<"Tool '", Str(tool_call_again[1].name), "' returned: ">>
                          \o executed_again.result,
                      outcome2)
    IN  IF first.raised # ""
        THEN [mem |-> first.mem, raised |-> first.raised, returned |-> <<>>,
              generations |-> 1, executions |-> 0, runs |-> <<>>,
              result |-> <<>>, requests |-> <<first.request>>]
        ELSE IF tool_call = <<>>
        THEN [mem |-> first.mem, raised |-> "", returned |-> llm_response,
              generations |-> 1, executions |-> 0, runs |-> <<>>,
              result |-> <<>>, requests |-> <<first.request>>]
        ELSE IF executed.raised # ""
        THEN [mem |-> first.mem, raised |-> executed.raised, returned |-> <<>>,
              generations |-> 1, executions |-> 1, runs |-> executed.runs,
              result |-> <<>>, requests |-> <<first.request>>]
        ELSE IF second.raised # "" \/ tool_call_again = <<>>
                \/ executed_again.raised # ""
        THEN [mem |-> second.mem, raised |-> second.raised,
              returned |-> second.returned,
              generations |-> 2, executions |-> 1, runs |-> executed.runs,
              result |-> executed.result,
              requests |-> <<first.request, second.request>>]
        ELSE [mem |-> third.mem, raised |-> third.raised,
              returned |-> third.returned,
              generations |-> 3, executions |-> 2,
              runs |-> executed.runs \o executed_again.runs,
              result |-> executed_again.result,
              requests |-> <<first.request, second.request, third.request>>]

\* a process that restores the memory it was given when its second
\* generation request fails
process_atomic(m, registered, user_message, outcome1, outcome2, now) ==
    LET first == chat(m, user_message, outcome1)
        llm_response == first.returned
        tool_call == parse_tool_call(llm_response)
        executed == execute_tool(registered, tool_call[1], now)
        result_message ==
            <<"Tool '", Str(tool_call[1].name), "' returned: ">> \o executed.result
        second == chat(first.mem, result_message, outcome2)
    IN  IF first.raised # ""
        THEN [mem |-> first.mem, raised |-> first.raised, returned |-> <<>>,
              generations |-> 1, executions |-> 0, runs |-> <<>>,
              result |-> <<>>, requests |-> <<first.request>>]
        ELSE IF tool_call = <<>>
        THEN [mem |-> first.mem, raised |-> "", returned |-> llm_response,
              generations |-> 1, executions |-> 0, runs |-> <<>>,
              result |-> <<>>, requests |-> <<first.request>>]
        ELSE IF executed.raised # ""
        THEN [mem |-> first.mem, raised |-> executed.raised, returned |-> <<>>,
              generations |-> 1, executions |-> 1, runs |-> executed.runs,
              result |-> <<>>, requests |-> <<first.request>>]
        ELSE [mem |-> IF second.raised # "" THEN m ELSE second.mem,
              raised |-> second.raised,
              returned |-> second.returned,
              generations |-> 2, executions |-> 1, runs |-> executed.runs,
              result |-> executed.result,
              requests |-> <<first.request, second.request>>]

\* Agent.process
process(m, registered, user_message, outcome1, outcome2, now) ==
    LET first == chat(m, user_message, outcome1)
        llm_response == first.returned
        tool_call == parse_tool_call(llm_response)
        executed == execute_tool(registered, tool_call[1], now)
        result_message ==
            <<"Tool '", Str(tool_call[1].name), "' returned: ">> \o executed.result
        second == chat(first.mem, result_message, outcome2)
    IN  IF first.raised # ""
        THEN [mem |-> first.mem, raised |-> first.raised, returned |-> <<>>,
              generations |-> 1, executions |-> 0, runs |-> <<>>,
              result |-> <<>>, requests |-> <<first.request>>]
        ELSE IF tool_call = <<>>
        THEN [mem |-> first.mem, raised |-> "", returned |-> llm_response,
              generations |-> 1, executions |-> 0, runs |-> <<>>,
              result |-> <<>>, requests |-> <<first.request>>]
        ELSE IF executed.raised # ""
        THEN [mem |-> first.mem, raised |-> executed.raised, returned |-> <<>>,
              generations |-> 1, executions |-> 1, runs |-> executed.runs,
              result |-> <<>>, requests |-> <<first.request>>]
        ELSE [mem |-> second.mem, raised |-> second.raised,
              returned |-> second.returned,
              generations |-> 2, executions |-> 1, runs |-> executed.runs,
              result |-> executed.result,
              requests |-> <<first.request, second.request>>]

\* Agent.process over a PersistedWindowBufferMemory whose store can fail
unreliable_process(l, fault, registered, user_message, outcome1, outcome2, now) ==
    LET after_second_chat(second) ==
            [c |-> second.c, raised |-> second.raised,
             returned |-> second.returned,
             generations |-> IF second.requested THEN 2 ELSE 1]
        after_first_chat(first) ==
            LET llm_response == first.returned
                tool_call == parse_tool_call(llm_response)
                executed == execute_tool(registered, tool_call[1], now)
                result_message ==
                    <<"Tool '", Str(tool_call[1].name), "' returned: ">>
                    \o executed.result
            IN  IF first.raised
                THEN [c |-> first.c, raised |-> TRUE, returned |-> <<>>,
                      generations |-> IF first.requested THEN 1 ELSE 0]
                ELSE IF tool_call = <<>>
                THEN [c |-> first.c, raised |-> FALSE, returned |-> llm_response,
                      generations |-> 1]
                ELSE IF executed.raised # ""
                THEN [c |-> first.c, raised |-> TRUE, returned |-> <<>>,
                      generations |-> 1]
                ELSE Once(unreliable_chat([first.c EXCEPT !.raised = FALSE], fault,
                                          result_message, outcome2),
                          after_second_chat)
    IN  Once(unreliable_chat(Connection(l), fault, user_message, outcome1),
             after_first_chat)

-----------------------------------------------------------------------------
(* State changes *)

SetMem(m) ==
    /\ messages' = m.messages
    /\ system_message' = m.system_message
    /\ lists' = m.lists
    /\ message_history' = m.message_history

\* an operation is taken only if the memory then holds at most MaxLog messages
Fits(m) == Len(get_messages(m)) <= MaxLog

\* the record of a call: the operation, its argument, all() before it, the
\* exception raised ("" if none), the value returned, the numbers of
\* generation requests and of execute_tool calls it made, the tools whose
\* execute it called, the value execute_tool returned and the last message of
\* each message list sent to the backend
Call(op, arg, raised, returned, generations, executions, runs) ==
    [op |-> op, arg |-> arg, before |-> get_messages(Mem), raised |-> raised,
     returned |-> returned, generations |-> generations,
     executions |-> executions, runs |-> runs, result |-> <<>>,
     sent |-> <<>>]

NoHist == [clean |-> FALSE, tracked |-> FALSE, added |-> <<>>,
           n_added |-> 0, sys_at |-> -1]

FreshHist == [clean |-> TRUE, tracked |-> TRUE, added |-> <<>>,
              n_added |-> 0, sys_at |-> -1]

\* the history after add_message(msg) on a memory that has only seen adds
HistAdd(role, msg) ==
    IF ~hist.clean THEN NoHist
    ELSE IF role = "system"
         THEN IF hist.sys_at = -1
              THEN [hist EXCEPT !.sys_at = hist.n_added]
              ELSE NoHist
         ELSE IF hist.n_added >= window_size + ExtraAdds THEN NoHist
              ELSE [hist EXCEPT
                      !.n_added = @ + 1,
                      !.tracked = @ /\ hist.n_added < MaxTrack,
                      !.added = IF hist.tracked /\ hist.n_added < MaxTrack
                                THEN Append(@, msg) ELSE <<>>]

\* message contents used by the callers of the Memory and of the client
Contents == {<<"a">>, <<"b">>}

Responses == {<<"a">>}

\* the messages the callers add: assistant messages hold responses
AddContents(role) == IF role = "assistant" THEN Responses ELSE Contents

ChatOutcomes ==
    {Outcome(k, <<>>) : k \in Failures \cup {"no_choices", "no_message", "null_content"}}
    \cup {Outcome("content", r) : r \in Responses \cup {<<>>}}

\* a process in which no generation client was constructed: the Memory
\* objects that exist are the default arguments, evaluated once when the
\* def statement runs
NoClients == [memories |-> <<>>, holders |-> <<>>]

\* a FakeRedisAdapter after __init__, at time 0
NewFakeRedis == [data |-> <<>>, expiries |-> <<>>, hashes |-> <<>>,
                 lists |-> <<>>, time |-> 0]

\* an event loop without handler invocations
NoTasks == [tasks |-> <<>>, running |-> 0, stepped |-> 0, memory_op |-> FALSE]

Fresh ==
    /\ variant \in Variants
    /\ window_size \in 0..MaxWindow
    /\ variant = "InMemoryStrategy" => window_size = 0
    /\ messages = <<>>
    /\ system_message = <<>>
    /\ lists = <<>>
    /\ message_history = <<>>
    /\ writers = <<>>
    /\ loop = NoTasks
    /\ clients = NoClients
    /\ outbox = <<>>
    /\ fake_redis = NewFakeRedis
    /\ call = Call("init", <<>>, "", <<>>, 0, 0, <<>>)

Init == Fresh /\ tools = <<>> /\ hist = NoHist

AddMessage(role, content) ==
    \E msg \in {NewMessage(role, content)} :
    \E m \in {add_message(Mem, msg)} :
        /\ Fits(m)
        /\ SetMem(m)
        /\ call' = Call("add_message", <<msg>>, "", <<>>, 0, 0, <<>>)
        /\ hist' = HistAdd(role, msg)
        /\ UNCHANGED <<variant, window_size, tools, clients, outbox, fake_redis, writers, loop>>

ClearMessages(system_prompt) ==
    /\ SetMem(clear_messages(Mem, system_prompt))
    /\ call' = Call("clear_messages", system_prompt, "", <<>>, 0, 0, <<>>)
    /\ hist' = NoHist
    /\ UNCHANGED <<variant, window_size, tools, clients, outbox, fake_redis, writers, loop>>

RemoveLastMessage ==
    /\ SetMem(remove_last_message(Mem))
    /\ call' = Call("remove_last_message", <<>>, "", <<>>, 0, 0, <<>>)
    /\ hist' = NoHist
    /\ UNCHANGED <<variant, window_size, tools, clients, outbox, fake_redis, writers, loop>>

\* the caller takes the list of get_messages
GetMessages ==
    /\ call' = [Call("get_messages", <<>>, "", <<>>, 0, 0, <<>>)
                  EXCEPT !.returned = returned_list(Mem)]
    /\ hist' = NoHist
    /\ UNCHANGED <<variant, window_size, messages, system_message, lists,
                   message_history, tools, clients, outbox, fake_redis, writers, loop>>

ListOps == {"append", "pop", "reverse"}

\* the caller still holds the list of the last get_messages, and has applied
\* fewer than MaxListOps operations to it
HoldsList ==
    /\ call.op \in {"get_messages", "list"}
    /\ Len(call.arg) < MaxListOps

\* the caller changes the list it holds to items by the operation op;
\* call.arg is the sequence of the operations applied so far
ChangeList(op, items) ==
    /\ Len(items) <= MaxLog
    /\ SetMem(write_list(Mem, call.returned, items))
    /\ call' = [call EXCEPT !.op = "list", !.arg = Append(@, op),
                            !.returned.items = items]
    /\ hist' = NoHist
    /\ UNCHANGED <<variant, window_size, tools, clients, outbox, fake_redis, writers, loop>>

ListAppend ==
    /\ HoldsList
    /\ ChangeList("append", list_append(call.returned.items,
                                        NewMessage("user", <<"Modified">>)))

ListPop ==
    /\ HoldsList
    /\ \E i \in 1..Len(call.returned.items) :
          ChangeList("pop", list_pop(call.returned.items, i))

ListReverse ==
    /\ HoldsList
    /\ ChangeList("reverse", list_reverse(call.returned.items))

NewClient(system_prompt) ==
    \E m \in {client_init(Mem, system_prompt)} :
        /\ Fits(m)
        /\ SetMem(m)
        /\ call' = Call("client_init", <<system_prompt>>, "", <<>>, 0, 0, <<>>)
        /\ hist' = NoHist
        /\ UNCHANGED <<variant, window_size, tools, clients, outbox, fake_redis, writers, loop>>

Chat(user_message, outcome) ==
    \E r \in {chat(Mem, user_message, outcome)} :
        /\ Fits(r.mem)
        /\ Fits(add_message(Mem, NewMessage("user", user_message)))
        /\ SetMem(r.mem)
        /\ call' = Call("chat", <<user_message, outcome.kind>>, r.raised,
                        r.returned, 1, 0, <<>>)
        /\ hist' = NoHist
        /\ UNCHANGED <<variant, window_size, tools, clients, outbox, fake_redis, writers, loop>>

Next ==
    \/ \E role \in Roles : \E content \in AddContents(role) : AddMessage(role, content)
    \/ ClearMessages(<<>>)
    \/ \E content \in Contents : ClearMessages(<<NewMessage("system", content)>>)
    \/ RemoveLastMessage
    \/ \E content \in Contents : NewClient(content)
    \/ \E content \in Contents, outcome \in ChatOutcomes : Chat(content, outcome)

Spec == Init /\ [][Next]_vars

\* a Memory on which its own operations alone are called
MemoryNext ==
    \/ \E role \in Roles : \E content \in AddContents(role) : AddMessage(role, content)
    \/ ClearMessages(<<>>)
    \/ \E content \in Contents : ClearMessages(<<NewMessage("system", content)>>)
    \/ RemoveLastMessage

MemorySpec == Init /\ [][MemoryNext]_vars

\* a Memory whose caller also changes the lists get_messages returned
CallerNext ==
    \/ \E role \in Roles : \E content \in AddContents(role) : AddMessage(role, content)
    \/ ClearMessages(<<>>)
    \/ \E content \in Contents : ClearMessages(<<NewMessage("system", content)>>)
    \/ RemoveLastMessage
    \/ GetMessages
    \/ ListAppend
    \/ ListPop
    \/ ListReverse

CallerSpec == Init /\ [][CallerNext]_vars

\* Two callers of PersistedWindowBufferMemory.add_message on one key, each
\* taking one store call at a time.  A writer holds its place in add_message
\* (pc: the store call it makes next), its message, and the serialized
\* preserved_messages it has still to push.  call holds the store and
\* get_messages when the two calls began, the order in which the writers
\* made their first store call, and whether a writer made a store call
\* while the other was between its first and its last one.
Writer(pc, msg, pending) == [pc |-> pc, msg |-> msg, pending |-> pending]

RaceInit == Init /\ variant = "PersistedWindowBufferMemory"

\* an add_message run to its end while no other call is in progress
SerialAdd(role, content) == writers = <<>> /\ AddMessage(role, content)

BeginAdds(content1, content2) ==
    /\ writers = <<>>
    /\ Len(get_messages(Mem)) < MaxLog
    /\ writers' = <<Writer("rpush", Message("user", content1), <<>>),
                    Writer("rpush", Message("user", content2), <<>>)>>
    /\ call' = [op |-> "add_message_begin", start |-> lists,
                before |-> get_messages(Mem), order |-> <<>>,
                overlapped |-> FALSE]
    /\ hist' = NoHist
    /\ UNCHANGED <<variant, window_size, messages, system_message, lists,
                   message_history, tools, clients, outbox, fake_redis, loop>>

\* the writer other than i is between its first and its last store call
OtherInProgress(i) == writers[3 - i].pc \notin {"rpush", "done"}

\* writer i makes its store call, which leaves the store as l and the
\* writer as w
StoreCall(i, l, w) ==
    /\ lists' = l
    /\ writers' = [writers EXCEPT ![i] = w]
    /\ call' = [call EXCEPT !.op = "add_message_store_call",
                            !.order = IF writers[i].pc = "rpush"
                                      THEN Append(@, i) ELSE @,
                            !.overlapped = @ \/ OtherInProgress(i)]
    /\ hist' = NoHist
    /\ UNCHANGED <<variant, window_size, messages, system_message,
                   message_history, tools, clients, outbox, fake_redis, loop>>

\* self._redis.rpush(self._messages_key, message.to_json())
WriterRpush(i) ==
    /\ i \in DOMAIN writers
    /\ writers[i].pc = "rpush"
    /\ StoreCall(i, rpush(lists, messages_key, to_json(writers[i].msg)),
                 [writers[i] EXCEPT !.pc = "lrange"])

\* all_messages = self.get_messages() and the choice of preserved_messages
WriterLrange(i) ==
    /\ i \in DOMAIN writers
    /\ writers[i].pc = "lrange"
    /\ LET all_messages == persisted_get_messages(Mem)
           system_messages == SelectSeq(all_messages, IsSystem)
           non_system_count == Len(all_messages) - Len(system_messages)
           non_system_messages == SelectSeq(all_messages, NotSystem)
           preserved_messages ==
               sort_by_index(
                   system_messages \o LastSlice(non_system_messages, window_size),
                   all_messages)
       IN  StoreCall(i, lists,
                     IF non_system_count > window_size
                     THEN [writers[i] EXCEPT
                             !.pc = "delete",
                             !.pending = map_to_json(preserved_messages)]
                     ELSE [writers[i] EXCEPT !.pc = "done"])

\* self._redis.delete(self._messages_key)
WriterDelete(i) ==
    /\ i \in DOMAIN writers
    /\ writers[i].pc = "delete"
    /\ StoreCall(i, delete(lists, messages_key),
                 [writers[i] EXCEPT
                    !.pc = IF writers[i].pending = <<>> THEN "done" ELSE "rebuild"])

\* one self._redis.rpush(self._messages_key, msg.to_json()) of the loop
WriterRebuild(i) ==
    /\ i \in DOMAIN writers
    /\ writers[i].pc = "rebuild"
    /\ StoreCall(i, rpush(lists, messages_key, Head(writers[i].pending)),
                 [writers[i] EXCEPT
                    !.pending = Tail(@),
                    !.pc = IF Tail(writers[i].pending) = <<>>
                           THEN "done" ELSE "rebuild"])

RaceNext ==
    \/ \E role \in Roles : \E content \in AddContents(role) : SerialAdd(role, content)
    \/ \E content1 \in Contents, content2 \in Contents : BeginAdds(content1, content2)
    \/ \E i \in {1, 2} : WriterRpush(i)
    \/ \E i \in {1, 2} : WriterLrange(i)
    \/ \E i \in {1, 2} : WriterDelete(i)
    \/ \E i \in {1, 2} : WriterRebuild(i)

RaceSpec == RaceInit /\ [][RaceNext]_vars

\* The handlers on the event loop of the Application.  Each webhook request
\* is a task running a handler; a task keeps the loop's thread until it
\* reaches an await that suspends it.  A task holds its handler and the
\* statement it executes next; loop.stepped is the task that made the last
\* step and loop.memory_op tells whether that step was a Memory operation.
Handlers == {"handle_message", "amnesia"}

FirstPc(handler) == IF handler = "handle_message" THEN "init" ELSE "clear_messages"

\* every statement of the handlers is awaited in a worker thread
awaits_to_thread(handler, pc) == TRUE

\* the statement at pc is an await that suspends the task: the
\* await update.message.reply_text(...) of both handlers; agent.process(...)
\* and memory.clear_messages() are called without await
awaits(handler, pc) == pc = "reply_text"

\* the statement after pc: Agent(...) adds the system prompt, process is
\* chat's add_message(user), get_messages and add_message(assistant)
NextPc(handler, pc) ==
    CASE pc = "init" -> "add_user"
      [] pc = "add_user" -> "get_messages"
      [] pc = "get_messages" -> "add_assistant"
      [] pc = "add_assistant" -> "reply_text"
      [] pc = "clear_messages" -> "reply_text"
      [] pc = "reply_text" -> "done"

\* the task is between the first and the last Memory operation of its
\* Agent.process call
MidTurn(task) == task.pc \in {"get_messages", "add_assistant"}

LoopInit ==
    /\ Init
    /\ variant = "PersistedWindowBufferMemory"
    /\ window_size = MaxWindow

\* a webhook request: ptb.process_update(update) runs the handler as a task
Dispatch(handler) ==
    /\ Len(loop.tasks) < MaxTasks
    /\ loop' = [loop EXCEPT
                  !.tasks = Append(@, [handler |-> handler, pc |-> FirstPc(handler)]),
                  !.memory_op = FALSE]
    /\ UNCHANGED <<variant, window_size, messages, system_message, lists,
                   message_history, tools, clients, outbox, fake_redis, writers, call, hist>>

\* task i executes its statement at pc, which leaves the memory as m
Step(i, pc, m, memory_op) ==
    /\ i \in DOMAIN loop.tasks
    /\ loop.tasks[i].pc = pc
    /\ loop.running \in {0, i}
    /\ SetMem(m)
    /\ \E next \in {NextPc(loop.tasks[i].handler, pc)} :
         loop' = [tasks |-> [loop.tasks EXCEPT ![i].pc = next],
                  running |-> IF next = "done"
                                 \/ awaits(loop.tasks[i].handler, next)
                              THEN 0 ELSE i,
                  stepped |-> i, memory_op |-> memory_op]
    /\ call' = Call(pc, <<i>>, "", <<>>, 0, 0, <<>>)
    /\ hist' = NoHist
    /\ UNCHANGED <<variant, window_size, tools, clients, outbox, fake_redis, writers>>

\* handle_message: Agent(...), whose client adds the system prompt
HandleMessageInit(i) ==
    Step(i, "init", client_init(Mem, create_system_prompt(<<calculator, get_current_time>>)), TRUE)

\* handle_message: the Memory operations of agent.process(update.message.text)
ProcessAddUser(i) ==
    Step(i, "add_user", add_message(Mem, NewMessage("user", <<"a">>)), TRUE)

ProcessGetMessages(i) == Step(i, "get_messages", Mem, TRUE)

ProcessAddAssistant(i) ==
    Step(i, "add_assistant", add_message(Mem, NewMessage("assistant", <<"b">>)), TRUE)

\* amnesia: memory.clear_messages()
AmnesiaClear(i) == Step(i, "clear_messages", clear_messages(Mem, <<>>), TRUE)

\* the await update.message.reply_text(...) of a handler completes
ReplyText(i) == Step(i, "reply_text", Mem, FALSE)

LoopNext ==
    \/ \E handler \in Handlers : Dispatch(handler)
    \/ \E i \in 1..MaxTasks : HandleMessageInit(i)
    \/ \E i \in 1..MaxTasks : ProcessAddUser(i)
    \/ \E i \in 1..MaxTasks : ProcessGetMessages(i)
    \/ \E i \in 1..MaxTasks : ProcessAddAssistant(i)
    \/ \E i \in 1..MaxTasks : AmnesiaClear(i)
    \/ \E i \in 1..MaxTasks : ReplyText(i)

LoopSpec == LoopInit /\ [][LoopNext]_vars

\* a Memory that only generation clients use: construction, chat and
\* clear_message_history
ClientNext ==
    \/ \E content \in Contents : NewClient(content)
    \/ \E content \in Contents, outcome \in ChatOutcomes : Chat(content, outcome)
    \/ \E content \in Contents : ClearMessages(<<NewMessage("system", content)>>)

ClientSpec == Init /\ [][ClientNext]_vars

\* a fresh Memory on which add_message alone is called
AddInit == Fresh /\ tools = <<>> /\ hist = FreshHist

AddNext == \E role \in Roles : \E content \in AddContents(role) : AddMessage(role, content)

AddSpec == AddInit /\ [][AddNext]_vars

-----------------------------------------------------------------------------
(* The Agent over its client: process and clear_message_history *)

Hi == "hi"

\* a fenced block tagged tool around body
Block(body) == <<OPEN, NL>> \o body \o <<NL, FENCE>>

Bodies ==
    {<<d>> : d \in Docs}
    \cup {<<>>, <<Hi>>, <<DocCalc, Hi>>, <<SP, DocTime, NL>>}

\* the texts the backend generates first: without a block, one block, text
\* around a block, fences that are not a block, two blocks
FirstResponses ==
    {<<>>, <<Hi>>}
    \cup {Block(b) : b \in Bodies}
    \cup {<<Hi, NL>> \o Block(<<DocCalc>>) \o <<NL, Hi>>}
    \cup {<<OPEN, NL, DocCalc>>, <<OPEN, NL, FENCE>>,
          <<OPEN, DocCalc, NL, FENCE>>, <<FENCE, NL, DocCalc, NL, FENCE>>,
          <<OPEN, SP, NL, NL, DocCalc, NL, FENCE>>,
          <<OPEN, NL, DocCalc, NL, OPEN, NL, DocTime, NL, FENCE>>}
    \cup {Block(<<DocCalc>>) \o <<NL>> \o Block(<<DocTime>>),
          Block(<<Hi>>) \o <<NL>> \o Block(<<DocCalc>>),
          Block(<<DocTime>>) \o <<NL>> \o Block(<<Hi>>)}

SecondResponses == {<<Hi>>, Block(<<DocCalc>>)}

FirstOutcomes ==
    {Outcome("content", r) : r \in FirstResponses}
    \cup {Outcome(k, <<>>) : k \in {"RateLimitError", "Exception", "no_choices"}}

SecondOutcomes ==
    {Outcome("content", r) : r \in SecondResponses}
    \cup {Outcome("APIError", <<>>)}

\* no request is made
NoOutcome == Outcome("none", <<>>)

UserTexts == {<<"a">>}

Midnight == "2025-05-01 00:00:00"

Times == {Midnight, "2025-05-01 10:00:01"}

ToolLists == {<<>>, <<calculator, get_current_time>>}

FitsAgent(m) == Len(get_messages(m)) <= MaxAgentLog

\* the memory has room for the four messages of a tool round trip
RECURSIVE AddFiller(_, _)
AddFiller(m, n) ==
    IF n = 0 THEN m ELSE AddFiller(add_message(m, NewMessage("user", <<>>)), n - 1)

\* four more messages evict nothing
EvictsNothing(m) ==
    Len(get_messages(AddFiller(m, 4))) = Len(get_messages(m)) + 4

\* under a window larger than MaxAgentWindow process is called only while the
\* four messages evict nothing
HasRoom(m) ==
    /\ FitsAgent(AddFiller(m, 4))
    /\ window_size > MaxAgentWindow => EvictsNothing(m)

\* the state after Agent.__init__ over a fresh Memory
AgentInit ==
    /\ variant \in Variants
    /\ window_size \in (0..MaxAgentWindow) \cup {RoundTripWindow}
    /\ variant = "InMemoryStrategy" => window_size = 0
    /\ tools \in ToolLists
    /\ tools = <<>> => variant = "InMemoryWindowBufferMemory"
    /\ \E m \in {client_init(EmptyMem, create_system_prompt(tools))} :
        /\ messages = m.messages
        /\ system_message = m.system_message
        /\ lists = m.lists
        /\ message_history = m.message_history
    /\ writers = <<>>
    /\ loop = NoTasks
    /\ clients = NoClients
    /\ outbox = <<>>
    /\ fake_redis = NewFakeRedis
    /\ call = [op |-> "init", arg |-> <<>>, before |-> <<>>, raised |-> "",
               returned |-> <<>>, generations |-> 0, executions |-> 0,
               runs |-> <<>>, result |-> <<>>, sent |-> <<>>]
    /\ hist = NoHist

\* one call of Agent.process on a memory with room; the second response is
\* drawn only if process asks for it, and the clock is read only if the time
\* tool runs; all() before the call is recorded if the memory has room for
\* the four messages of a round trip
Process ==
    /\ HasRoom(Mem)
    /\ \E before \in {IF EvictsNothing(Mem) THEN get_messages(Mem) ELSE <<>>} :
       \E user_message \in UserTexts, outcome1 \in FirstOutcomes :
       \E p \in {process(Mem, tools, user_message, outcome1, NoOutcome, Midnight)} :
       \E outcome2 \in (IF p.generations = 2 THEN SecondOutcomes ELSE {NoOutcome}) :
       \E now \in (IF p.runs = <<get_current_time>> THEN Times ELSE {Midnight}) :
       \E r \in {IF outcome2 = NoOutcome /\ now = Midnight THEN p
                 ELSE process(Mem, tools, user_message, outcome1, outcome2, now)} :
           /\ SetMem(r.mem)
           /\ call' = [op |-> "process",
                       arg |-> <<user_message, outcome1, outcome2>>,
                       before |-> before, raised |-> r.raised,
                       returned |-> r.returned,
                       generations |-> r.generations,
                       executions |-> r.executions, runs |-> r.runs,
                       result |-> r.result,
                       sent |-> [i \in 1..Len(r.requests) |->
                                   r.requests[i][Len(r.requests[i])]]]
           /\ hist' = NoHist
           /\ UNCHANGED <<variant, window_size, tools, clients, outbox, fake_redis, writers, loop>>

ClearMessageHistory ==
    /\ SetMem(clear_message_history(Mem, create_system_prompt(tools)))
    /\ call' = [op |-> "clear_message_history", arg |-> <<>>, before |-> <<>>,
                raised |-> "", returned |-> <<>>, generations |-> 0,
                executions |-> 0, runs |-> <<>>, result |-> <<>>,
                sent |-> <<>>]
    /\ hist' = NoHist
    /\ UNCHANGED <<variant, window_size, tools, clients, outbox, fake_redis, writers, loop>>

\* the faults of the store during one process call
Faults ==
    {[first |-> n, transient |-> t] : n \in 0..MaxStoreCalls, t \in BOOLEAN}
    \ {[first |-> 0, transient |-> FALSE]}

StorageFirstOutcomes ==
    {Outcome("content", r) : r \in {<<Hi>>, Block(<<DocCalc>>)}}
    \cup {Outcome("RateLimitError", <<>>)}

StorageSecondOutcomes == {Outcome("content", <<Hi>>), Outcome("APIError", <<>>)}

\* the Agent over a PersistedWindowBufferMemory on a store that works while
\* the Agent is constructed
StorageInit ==
    /\ AgentInit
    /\ variant = "PersistedWindowBufferMemory"

\* a store without failure
NoFault == [first |-> 0, transient |-> TRUE]

\* one call of Agent.process, on a list with room for the four messages of a
\* round trip, during which the store fails as fault says; failed tells
\* whether a store call of the process call failed.  The second response is
\* drawn only if process asks for it, and the first failing store call is one
\* of the calls that process makes on a store without failure
ProcessOverStore ==
    /\ Len(lrange(lists, messages_key)) + 4 <= MaxAgentLog
    /\ \E user_message \in UserTexts, outcome1 \in StorageFirstOutcomes :
       \E p \in {unreliable_process(lists, NoFault, tools, user_message, outcome1,
                                    NoOutcome, Midnight)} :
       \E outcome2 \in (IF p.generations = 2 THEN StorageSecondOutcomes ELSE {NoOutcome}) :
       \E q \in {IF outcome2 = NoOutcome THEN p
                 ELSE unreliable_process(lists, NoFault, tools, user_message, outcome1,
                                         outcome2, Midnight)} :
       \E fault \in {f \in Faults : f.first <= q.c.calls} :
       \E r \in {IF fault = NoFault THEN q
                 ELSE unreliable_process(lists, fault, tools, user_message, outcome1,
                                         outcome2, Midnight)} :
        /\ lists' = r.c.lists
        /\ call' = [op |-> "process_over_store",
                    arg |-> <<user_message, outcome1>>,
                    fault |-> fault,
                    failed |-> \E n \in 1..r.c.calls : Fails(fault, n),
                    raised |-> r.raised, returned |-> r.returned,
                    generations |-> r.generations]
        /\ hist' = NoHist
        /\ UNCHANGED <<variant, window_size, messages, system_message,
                       message_history, tools, clients, outbox, fake_redis, writers, loop>>

StorageNext ==
    \/ ProcessOverStore
    \/ ClearMessageHistory

StorageSpec == StorageInit /\ [][StorageNext]_vars

AgentNext ==
    \/ Process
    \/ ClearMessageHistory

AgentSpec == AgentInit /\ [][AgentNext]_vars

-----------------------------------------------------------------------------
(* Properties of the Memory and of the generation client *)

All == get_messages(Mem)

Windowed == variant \in {"InMemoryWindowBufferMemory", "PersistedWindowBufferMemory"}

IsSystemMessage(x) == RoleOf(x) = "system"

IsNonSystemMessage(x) == RoleOf(x) # "system"

SystemCount(seq) == Len(SelectSeq(seq, IsSystemMessage))

NonSystemCount(seq) == Len(SelectSeq(seq, IsNonSystemMessage))

\* the newest n elements of seq, in order
Newest(seq, n) ==
    IF Len(seq) <= n THEN seq ELSE SubSeq(seq, Len(seq) - n + 1, Len(seq))

\* seq without its k oldest non-system messages
RECURSIVE DropOldestNonSystem(_, _)
DropOldestNonSystem(seq, k) ==
    IF k <= 0 \/ seq = <<>> THEN seq
    ELSE IF IsNonSystemMessage(Head(seq))
         THEN DropOldestNonSystem(Tail(seq), k - 1)
         ELSE <<Head(seq)>> \o DropOldestNonSystem(Tail(seq), k)

\* C1: rollback. After a chat call in which the generation backend failed,
\* Memory.all() equals Memory.all() immediately before the call, for every
\* variant, window size and prior history.
C1_Rollback ==
    (call.op = "chat" /\ call.raised # "") => All = call.before

\* C2: window bound. After each add on a windowed Memory (in-process or
\* persisted) of window size W >= 0, at most W non-system messages are
\* retained.
C2_WindowBound ==
    (Windowed /\ call.op = "add_message") => NonSystemCount(All) <= window_size

\* C3: single system message. After any sequence of add, clear and
\* remove_last calls and of client constructions over the same Memory, at
\* most one message with role system is retained.
C3_SingleSystem == SystemCount(All) <= 1

\* C4: eviction order. For a window size N >= 1 and non-system messages
\* m1..m(N+k) added in order to an empty Memory with no system message,
\* all() is exactly the newest N of them, in their original order.
C4_EvictionOrder ==
    (Windowed /\ window_size >= 1 /\ hist.clean /\ hist.tracked
        /\ hist.sys_at = -1)
    => All = Newest(hist.added, window_size)

\* C5: system preservation. After N+5 non-system adds under window size N
\* with one system message added at any position among them, all() holds the
\* system message as its first element, followed by non-system messages only.
C5_SystemFirst ==
    (Windowed /\ hist.clean /\ hist.sys_at # -1
        /\ hist.n_added = window_size + ExtraAdds)
    => /\ All # <<>>
       /\ IsSystemMessage(All[1])
       /\ \A i \in 2..Len(All) : IsNonSystemMessage(All[i])

\* C6: eviction preserves the relative order of the survivors. After an add
\* that triggers eviction (window size >= 1), all() is the log before the add
\* followed by the added message, without its oldest non-system messages:
\* every retained message stands in the order in which it was added, also
\* when several messages have the same role and content.
C6_SurvivorOrder ==
    (Windowed /\ window_size >= 1 /\ call.op = "add_message"
        /\ NonSystemCount(call.before \o call.arg) > window_size)
    => All = DropOldestNonSystem(call.before \o call.arg,
                NonSystemCount(call.before \o call.arg) - window_size)

-----------------------------------------------------------------------------
(* Properties of Agent.process *)

\* the text of the first response of the last process call: a response
\* without choices or content is the empty text
FirstGenerated ==
    call.op = "process" /\ call.arg[2].kind \notin Failures

FirstText ==
    IF call.arg[2].kind = "content" THEN call.arg[2].content ELSE <<>>

SecondOutcome == call.arg[3]

\* a fenced block in text: the tag at i, only white space up to the newline
\* at j, the body, the newline at k and a fence after it
IsBlockAt(text, i, j, k) ==
    /\ i < j /\ j < k /\ k < Len(text)
    /\ text[i] = OPEN
    /\ \A x \in (i + 1)..j : IsSpace(text[x])
    /\ text[j] = NL
    /\ text[k] = NL
    /\ IsFence(text[k + 1])

Blocks(text) ==
    {b \in (1..Len(text)) \X (1..Len(text)) \X (1..Len(text)) :
        IsBlockAt(text, b[1], b[2], b[3])}

HasBlock(text) == Blocks(text) # {}

\* the block that is recognized: the leftmost tag, the longest white space
\* after it, the nearest closing fence
FirstBlock(text) ==
    CHOOSE b \in Blocks(text) : \A c \in Blocks(text) :
        \/ b[1] < c[1]
        \/ b[1] = c[1] /\ b[2] > c[2]
        \/ b[1] = c[1] /\ b[2] = c[2] /\ b[3] <= c[3]

BlockBody(text) ==
    SubSeq(text, FirstBlock(text)[2] + 1, FirstBlock(text)[3] - 1)

\* body is the JSON document d with white space around it
IsDocument(body, d) ==
    \E n \in 1..Len(body) :
        /\ body[n] = d
        /\ \A x \in (1..Len(body)) \ {n} : IsSpace(body[x])

IsObject(body) == \E d \in ObjectDocs : IsDocument(body, d)

\* a JSON object with a name that is a string and, if it has parameters, an
\* object as parameters
IsValidToolCall(body) ==
    \E d \in ObjectDocs :
        /\ IsDocument(body, d)
        /\ "name" \in Decode(d).keys
        /\ Decode(d).name.type = "str"
        /\ "parameters" \in Decode(d).keys => Decode(d).parameters.type = "dict"

IsObjectWithoutName(body) ==
    \E d \in ObjectDocs : IsDocument(body, d) /\ "name" \notin Decode(d).keys

\* process returned the first response and did nothing else
PassedThrough ==
    /\ call.raised = ""
    /\ call.returned = FirstText
    /\ call.generations = 1
    /\ call.executions = 0
    /\ call.runs = <<>>

\* C7: single round trip. When the first generated response contains a
\* valid tool-call block (a JSON object with a string name and, optionally,
\* an object of parameters), one call of process makes exactly two
\* generation requests and exactly one execute_tool call (at most one
\* Tool.execute), and if the second request gives a response, process returns
\* that response, also when it holds a tool-call block itself; if the second
\* request fails, process raises that failure.
C7_SingleRoundTrip ==
    (FirstGenerated /\ HasBlock(FirstText) /\ IsValidToolCall(BlockBody(FirstText)))
    => /\ call.generations = 2
       /\ call.executions = 1
       /\ Len(call.runs) <= 1
       /\ SecondOutcome.kind = "content"
            => call.raised = "" /\ call.returned = SecondOutcome.content
       /\ SecondOutcome.kind \in Failures => call.raised = SecondOutcome.kind

\* a round trip whose second response holds a tool-call block, returned as is
C7_Witness ==
    /\ FirstGenerated
    /\ FirstText = Block(<<DocCalc>>)
    /\ SecondOutcome = Outcome("content", Block(<<DocCalc>>))
    /\ call.returned = Block(<<DocCalc>>)
    /\ call.generations = 2
    /\ call.runs = <<calculator>>

\* C8: no-tool passthrough. When the first generated response contains no
\* fenced tool block, process returns that response verbatim, makes exactly
\* one generation request and executes no tool.
C8_Passthrough ==
    (FirstGenerated /\ ~HasBlock(FirstText)) => PassedThrough

\* a response with the tag and a fence, but no newline after the tag
C8_Witness ==
    /\ FirstGenerated
    /\ FirstText = <<OPEN, DocCalc, NL, FENCE>>
    /\ call.returned = <<OPEN, DocCalc, NL, FENCE>>
    /\ call.generations = 1

\* C9: malformed block. When the tool block of the generated text (the first
\* one, if there are several) has a body that is not valid JSON, or valid
\* JSON that is not an object, process returns the generated text unmodified,
\* makes exactly one generation request, executes no tool and raises nothing.
C9_MalformedBlock ==
    (FirstGenerated /\ HasBlock(FirstText) /\ ~IsObject(BlockBody(FirstText)))
    => PassedThrough

\* a block whose body is a JSON array
C9_Witness ==
    /\ FirstGenerated
    /\ FirstText = Block(<<DocList>>)
    /\ call.returned = Block(<<DocList>>)
    /\ call.generations = 1
    /\ call.executions = 0

\* C10: required name. When the body of the tool block is a JSON object
\* without a name field, process returns the generated text unmodified, with
\* exactly one generation request, no tool lookup and no second generation.
C10_RequiredName ==
    (FirstGenerated /\ HasBlock(FirstText)
        /\ IsObjectWithoutName(BlockBody(FirstText)))
    => PassedThrough

\* the JSON object in the recognized block of the first response, the name
\* its tool call has (None if the object has no name) and its parameters
\* (the empty dict if the object has none)
TheDocument(body) == CHOOSE d \in ObjectDocs : IsDocument(body, d)

HasToolCall ==
    FirstGenerated /\ HasBlock(FirstText) /\ IsObject(BlockBody(FirstText))

CalledName == Decode(TheDocument(BlockBody(FirstText))).name

CalledParameters ==
    IF "parameters" \in Decode(TheDocument(BlockBody(FirstText))).keys
    THEN Decode(TheDocument(BlockBody(FirstText))).parameters
    ELSE EmptyDict

IsRegistered(name) ==
    name.type = "str" /\ \E i \in 1..Len(tools) : tools[i] = name.str

\* C11: unknown tool. For every tool call whose name is not a registered
\* tool, whatever JSON value the name holds (string, null, number, array or
\* object), execute_tool returns the error string that names it and raises
\* nothing: process goes on to its second generation request.
C11_UnknownTool ==
    (HasToolCall /\ ~IsRegistered(CalledName))
    => /\ call.executions = 1
       /\ call.raised # "TypeError"
       /\ call.generations = 2
       /\ call.result = <<"Error: Tool '", Str(CalledName), "' not found.">>

\* the keyword arguments the execute of a tool takes
ExecuteKeys(name) == IF name = calculator THEN {"expression"} ELSE {}

\* execute(**parameters) can be called: parameters is an object with exactly
\* the arguments of execute
BindsTo(name, parameters) ==
    parameters.type = "dict" /\ parameters.keys = ExecuteKeys(name)

\* the user turn process sends after the tool call
ToolResultTurn ==
    NewMessage("user", <<"Tool '", Str(CalledName), "' returned: ">> \o call.result)

\* the memory keeps a user message until the request is made
KeepsUserTurn == ~(variant = "InMemoryWindowBufferMemory" /\ window_size = 0)

\* C12: tool fault. For a registered tool, a failure of execute(**parameters)
\* (parameters missing, unexpected, or not an object) raises nothing: it
\* gives the string Error executing tool '<name>': ..., execute is not
\* entered, and that string, like the result of an execute that ran, is sent
\* as the turn Tool '<name>' returned: <result> of the second generation
\* request, whose response process returns.
C12_ToolFault ==
    (HasToolCall /\ IsRegistered(CalledName))
    => /\ call.executions = 1
       /\ call.generations = 2
       /\ Len(call.sent) = 2
       /\ call.raised =
            (IF SecondOutcome.kind \in Failures THEN SecondOutcome.kind ELSE "")
       /\ SecondOutcome.kind = "content" => call.returned = SecondOutcome.content
       /\ BindsTo(CalledName.str, CalledParameters)
            => call.runs = <<CalledName.str>>
       /\ ~BindsTo(CalledName.str, CalledParameters)
            => /\ call.runs = <<>>
               /\ SubSeq(call.result, 1, 3)
                    = <<"Error executing tool '", CalledName.str, "': ">>
       /\ KeepsUserTurn => call.sent[2] = ToolResultTurn

\* the calculator called with null parameters: the error string is sent and
\* the second response returned
C12_Witness ==
    /\ HasToolCall
    /\ BlockBody(FirstText) = <<DocCalcNullParams>>
    /\ IsRegistered(CalledName)
    /\ call.result = <<"Error executing tool '", calculator, "': ",
                       "argument after ** must be a mapping">>
    /\ KeepsUserTurn
    /\ call.sent[2] = ToolResultTurn
    /\ call.returned = <<Hi>>

\* C13: propagation policy. Over a store without faults, process raises
\* only if one of its generation requests failed: for every generated text
\* and every tool outcome, if no generation request fails, process raises
\* nothing and returns a text.
C13_Propagation ==
    (call.op = "process" /\ call.arg[2].kind \notin Failures
        /\ call.arg[3].kind \notin Failures)
    => call.raised = ""

\* the memory that held before has room for four more messages
RoomForFour(before) ==
    \/ variant = "InMemoryStrategy"
    \/ Windowed /\ NonSystemCount(before) + 4 <= window_size

\* C14: tool result turn. After a tool call is parsed, the second generation
\* is requested through the same client and Memory with a user turn that is
\* exactly Tool '<name>' returned: <result>; after a round trip in which both
\* generations succeeded, on a Memory with room for four more messages, the
\* Memory has gained exactly user(user_text), assistant(first response),
\* user(tool result turn), assistant(final response), in this order.
C14_ToolResultTurn ==
    (call.op = "process" /\ call.generations = 2)
    => /\ HasToolCall
       /\ KeepsUserTurn => call.sent[2] = ToolResultTurn
       /\ (call.raised = "" /\ RoomForFour(call.before))
            => All = call.before \o
                     << NewMessage("user", call.arg[1]),
                        NewMessage("assistant", FirstText),
                        ToolResultTurn,
                        NewMessage("assistant", call.returned) >>

\* a round trip of the calculator on a window of four messages
C14_Witness ==
    /\ call.op = "process"
    /\ call.generations = 2
    /\ call.raised = ""
    /\ Windowed
    /\ RoomForFour(call.before)
    /\ call.runs = <<calculator>>
    /\ Len(All) = Len(call.before) + 4
    /\ All[Len(All) - 1] = Message("user", <<"Tool '", calculator, "' returned: ", "4">>)

-----------------------------------------------------------------------------
(* Properties of chat and of the Memory operations *)

\* the responses of a backend call that succeeded without content
EmptyKinds == {"no_choices", "no_message", "null_content"}

\* the memory that held before has room for a user and an assistant message
RoomForTwo(before) ==
    \/ variant = "InMemoryStrategy"
    \/ Windowed /\ NonSystemCount(before) + 2 <= window_size

\* C15: empty response policy. When the backend call succeeds but the
\* response has no choices, no message or null content, chat raises nothing
\* and returns the empty string, and on a Memory with room for two messages
\* all() is then all() before the call followed by the user message and an
\* assistant message with empty content; every chat that does not fail adds
\* exactly the user message and one assistant message holding what it
\* returned.
C15_EmptyResponse ==
    /\ (call.op = "chat" /\ call.arg[2] \in EmptyKinds)
        => call.raised = "" /\ call.returned = <<>>
    /\ (call.op = "chat" /\ call.raised = "" /\ RoomForTwo(call.before))
        => All = call.before \o << NewMessage("user", call.arg[1]),
                                   NewMessage("assistant", call.returned) >>

\* a response without choices on a window with room
C15_Witness ==
    /\ call.op = "chat"
    /\ call.arg[2] = "no_choices"
    /\ Windowed
    /\ RoomForTwo(call.before)
    /\ call.returned = <<>>
    /\ All = call.before \o << Message("user", call.arg[1]),
                                Message("assistant", <<>>) >>

\* seq without its element at position i
Without(seq, i) == SubSeq(seq, 1, i - 1) \o SubSeq(seq, i + 1, Len(seq))

\* the last call added a message of this kind: it is the most recently added
LastAddedSystem == call.op = "add_message" /\ IsSystemMessage(call.arg[1])

LastAddedNonSystem == call.op = "add_message" /\ IsNonSystemMessage(call.arg[1])

\* the Memory retains at least one non-system message after an add
RetainsOne == variant = "InMemoryStrategy" \/ window_size >= 1

\* C16: remove_last. In every Memory variant, a remove_last called when the
\* history is empty, or right after a system message was added, changes
\* nothing; called right after a non-system message was added (and kept by
\* the window), it deletes exactly that message.
C16_RemoveLast ==
    [][ call'.op = "remove_last_message"
        => /\ (All = <<>> \/ LastAddedSystem) => All' = All
           /\ (LastAddedNonSystem /\ RetainsOne)
                => \E i \in 1..Len(All) :
                      All[i] = call.arg[1] /\ All' = Without(All, i) ]_vars

\* the position of the last non-system message of seq
LastNonSystem(seq) ==
    CHOOSE i \in 1..Len(seq) :
        /\ IsNonSystemMessage(seq[i])
        /\ \A j \in (i + 1)..Len(seq) : IsSystemMessage(seq[j])

\* C17: remove_last frame. In any reachable state remove_last leaves all()
\* unchanged or removes only its last non-system message: every system
\* message and every other non-system message stays, unchanged and in order;
\* on a history without non-system messages (the system message alone, or
\* nothing) it leaves all() unchanged, however often it is repeated.
C17_RemoveLastFrame ==
    call.op = "remove_last_message"
    => /\ \/ All = call.before
          \/ /\ NonSystemCount(call.before) > 0
             /\ All = Without(call.before, LastNonSystem(call.before))
       /\ SelectSeq(All, IsSystemMessage) = SelectSeq(call.before, IsSystemMessage)
       /\ NonSystemCount(call.before) = 0 => All = call.before

\* a remove_last that removed a message and kept the system message
C17_Witness ==
    /\ call.op = "remove_last_message"
    /\ variant = "PersistedWindowBufferMemory"
    /\ SystemCount(call.before) = 1
    /\ NonSystemCount(call.before) = 2
    /\ All = SubSeq(call.before, 1, 2)
    /\ SystemCount(All) = 1

\* C18: clear. From any reachable state, clear(system_prompt=S) with a system
\* message S leaves all() = [S], and clear() without argument leaves all()
\* empty: the previous system message is discarded too.
C18_Clear ==
    call.op = "clear_messages" => All = call.arg

\* a clear with a new system message on a history that held another system
\* message and a non-system message
C18_Witness ==
    /\ call.op = "clear_messages"
    /\ call.arg # <<>>
    /\ SystemCount(call.before) >= 1
    /\ NonSystemCount(call.before) >= 1
    /\ \A i \in 1..Len(call.before) : call.before[i] # call.arg[1]
    /\ All = call.arg

\* C19: all() returns an independent copy. After the caller appended to,
\* removed from or reordered the list get_messages returned, get_messages
\* returns what it returned before.
C19_IndependentCopy ==
    call.op = "list" => All = call.before

\* the caller changed a non-empty returned list, which now differs from what
\* get_messages returns
C19_Witness ==
    /\ call.op = "list"
    /\ call.before # <<>>
    /\ call.returned.items # call.before
    /\ All = call.before

\* a conversation other than the one the Memory of the state belongs to
OtherConversation == "chat_2"

\* C20: conversation isolation. The add, clear and remove_last of the
\* persisted Memory of one conversation never change what get_messages
\* returns for the Memory of a different conversation over the same store.
C20_Isolation ==
    [][ variant = "PersistedWindowBufferMemory"
        /\ call'.op \in {"add_message", "clear_messages", "remove_last_message"}
        => conversation_get_messages(lists', OtherConversation)
             = conversation_get_messages(lists, OtherConversation) ]_vars

\* C21: storage unavailability is fatal to the turn. If a store call fails
\* during a Memory operation inside Agent.process, process raises and returns
\* no reply.
C21_StorageFatal ==
    call.op = "process_over_store" /\ call.failed
    => call.raised /\ call.returned = <<>>

\* the store fails once, after the first generation request was answered
C21_Witness ==
    /\ call.op = "process_over_store"
    /\ call.failed
    /\ call.fault.transient
    /\ call.generations >= 1
    /\ call.arg[2].kind = "content"
    /\ call.raised

MemoryOps == {"add_message", "clear_messages", "remove_last_message"}

\* C22: no write buffering. After every add, clear or remove_last of the
\* persisted Memory the store's list under the key is the serialization of
\* get_messages, and an instance newly constructed over the store returns
\* the same get_messages.
C22_NoWriteBuffering ==
    variant = "PersistedWindowBufferMemory" /\ call.op \in MemoryOps
    => /\ lrange(lists, messages_key) = map_to_json(All)
       /\ persisted_get_messages(persisted_init(Mem)) = All

\* a remove_last that rewrote a list which still holds messages
C22_Witness ==
    /\ variant = "PersistedWindowBufferMemory"
    /\ call.op = "remove_last_message"
    /\ Len(All) >= 1
    /\ Len(All) < Len(call.before)
    /\ lrange(lists, messages_key) = map_to_json(All)

\* the two concurrent add_message calls have returned
BothDone ==
    /\ writers # <<>>
    /\ \A i \in DOMAIN writers : writers[i].pc = "done"

\* get_messages after the two adds made one after the other on the store the
\* calls began on, first writer i and then writer j
SerialResult(i, j) ==
    persisted_get_messages(
        persisted_add_message(
            persisted_add_message([Mem EXCEPT !.lists = call.start],
                                  writers[i].msg),
            writers[j].msg))

\* the newest n elements of seq
NewestOf(seq, n) ==
    IF n >= Len(seq) THEN seq ELSE SubSeq(seq, Len(seq) - n + 1, Len(seq))

\* the store calls of the two adds were not interleaved: the result is the
\* one of the adds made one after the other
SerializedIsSerial ==
    BothDone /\ ~call.overlapped
    => All = SerialResult(call.order[1], call.order[2])

\* no interleaving of the store calls of the two adds ends in a state that
\* no serial order of the adds produces
NoRace ==
    BothDone => All \in {SerialResult(1, 2), SerialResult(2, 1)}

\* C23: concurrent writers race. When the two add calls on one key are
\* serialized, at most window_size non-system messages are retained and they
\* are the newest ones in insertion order.
C23_SerializedAdds ==
    BothDone /\ ~call.overlapped
    => LET inserted == SelectSeq(call.before, NotSystem)
                       \o <<writers[call.order[1]].msg, writers[call.order[2]].msg>>
       IN  /\ NonSystemCount(All) <= window_size
           /\ SelectSeq(All, NotSystem) = NewestOf(inserted, window_size)

\* C24: one in-flight turn per conversation. When a handler invocation
\* executes a Memory operation, no other invocation is between the first and
\* the last Memory operation of its Agent.process call.
C24_OneTurnInFlight ==
    loop.memory_op
    => \A j \in DOMAIN loop.tasks :
          j # loop.stepped => ~MidTurn(loop.tasks[j])

\* a handle_message between the Memory operations of its process call while
\* an earlier invocation is suspended in its reply and a later one waits
C24_Witness ==
    /\ Len(loop.tasks) = 3
    /\ loop.tasks[1].pc = "reply_text"
    /\ loop.tasks[2].handler = "handle_message"
    /\ MidTurn(loop.tasks[2])
    /\ loop.tasks[3].pc = FirstPc(loop.tasks[3].handler)
    /\ loop.memory_op

\* the content of the system message the Agent's client added
SystemPromptHeld ==
    LET held == SelectSeq(All, IsSystemMessage)
    IN  IF held = <<>> THEN <<>> ELSE ContentOf(held[1])

NoToolsNote == "\nNo tools are currently available."

\* C25: system prompt composition. Agent.__init__ builds, for every list of
\* registered tools, the base block followed by the lines of each tool in
\* registration order, with the no-tools note if and only if no tool is
\* registered.
C25_SystemPrompt ==
    call.op = "init" /\ SystemPromptHeld # <<>>
    => /\ ~create_system_prompt_raises(tools)
       /\ SystemPromptHeld[1] = BASE_AGENT_SYSTEM_PROMPT
       /\ SystemPromptHeld = create_system_prompt(tools)
       /\ (\E i \in 1..Len(SystemPromptHeld) : SystemPromptHeld[i] = NoToolsNote)
            <=> tools = <<>>

\* process ended with an exception that except Exception does not name
ToolExits == call.op = "process" /\ call.raised \in BaseExceptions

\* what holds of C7 and of C12: the statements for the process calls that
\* no such exception ends
C7_UnlessToolExits == ~ToolExits => C7_SingleRoundTrip

C12_UnlessToolExits == ~ToolExits => C12_ToolFault

\* the calculator is called with abs.__self__.exit(): process raises
\* SystemExit after one generation request
ToolExitReached ==
    /\ ToolExits
    /\ BlockBody(FirstText) = <<DocCalcExit>>
    /\ call.runs = <<calculator>>
    /\ call.generations = 1

\* the number of messages of seq equal to x, and of its assistant messages
CountOf(seq, x) == Cardinality({i \in 1..Len(seq) : seq[i] = x})

AssistantCount(seq) == Cardinality({i \in 1..Len(seq) : RoleOf(seq[i]) = "assistant"})

\* the step is a chat whose generation request failed
FailedChat == call'.op = "chat" /\ call'.raised \in Failures

\* the user message LlmClient.chat adds in the step
UserMessageOfChat == NewMessage("user", call'.arg[1])

\* C29: a failed exchange leaves none of its own messages. After a chat that
\* fails because the backend call failed, Memory holds neither the user
\* message the call added (it holds no more messages equal to it than before
\* the call) nor an assistant message for it, the number of non-system
\* messages is not larger than before the call, and the Memory state is the
\* one every other failure kind gives.
C29_FailedExchange ==
    [][FailedChat
       => /\ CountOf(get_messages(Mem)', UserMessageOfChat)
                <= CountOf(get_messages(Mem), UserMessageOfChat)
          /\ AssistantCount(get_messages(Mem)') <= AssistantCount(get_messages(Mem))
          /\ NonSystemCount(get_messages(Mem)') <= NonSystemCount(get_messages(Mem))
          /\ \A kind \in Failures :
                chat(Mem, call'.arg[1], Outcome(kind, <<>>)).mem = Mem']_vars

\* the parts of C29 that hold: no assistant message is added and every
\* failure kind gives the same state
C29_SameForEveryFailure ==
    [][FailedChat
       => /\ AssistantCount(get_messages(Mem)') <= AssistantCount(get_messages(Mem))
          /\ \A kind \in Failures :
                chat(Mem, call'.arg[1], Outcome(kind, <<>>)).mem = Mem']_vars

\* C29 without its last part, for the window sizes from 1 on
C29_AtPositiveWindow ==
    [][FailedChat /\ window_size >= 1
       => /\ CountOf(get_messages(Mem)', UserMessageOfChat)
                <= CountOf(get_messages(Mem), UserMessageOfChat)
          /\ NonSystemCount(get_messages(Mem)') <= NonSystemCount(get_messages(Mem))]_vars

\* C29 for the two Memory variants that are not persisted
C29_UserMessageGoneInProcess ==
    [][FailedChat /\ variant # "PersistedWindowBufferMemory"
       => CountOf(get_messages(Mem)', UserMessageOfChat)
            <= CountOf(get_messages(Mem), UserMessageOfChat)]_vars

\* C30: process is not atomic over Memory. When the first generation gives a
\* tool call and the second generation request fails, process raises that
\* failure and returns nothing; on a Memory with room for the messages of the
\* round trip only the tool-result turn is rolled back: all() is all() before
\* the call followed by the user message and the first assistant response
\* (the text with the tool call), without a final answer.
C30_NotAtomic ==
    (HasToolCall /\ Hashable(CalledName) /\ SecondOutcome.kind \in Failures)
    => /\ call.raised = SecondOutcome.kind
       /\ call.returned = <<>>
       /\ call.generations = 2
       /\ call.executions = 1
       /\ RoomForFour(call.before)
            => /\ All = call.before \o << NewMessage("user", call.arg[1]),
                                          NewMessage("assistant", FirstText) >>
               /\ CountOf(All, ToolResultTurn) = 0

\* the calculator is called, the second request fails with APIError, and the
\* persisted Memory holds the user message and the tool-call text
C30_Witness ==
    /\ HasToolCall
    /\ FirstText = Block(<<DocCalc>>)
    /\ call.runs = <<calculator>>
    /\ SecondOutcome.kind = "APIError"
    /\ call.raised = "APIError"
    /\ variant = "PersistedWindowBufferMemory"
    /\ RoomForFour(call.before)
    /\ Len(All) = Len(call.before) + 2
    /\ All[Len(All)] = Message("assistant", Block(<<DocCalc>>))
    /\ All[Len(All) - 1] = Message("user", call.arg[1])

\* the text holds fenced tool blocks at two tags or more
SeveralBlocks(text) == Cardinality({b[1] : b \in Blocks(text)}) >= 2

\* C27: one block per response. When the first generated text holds several
\* fenced tool blocks, one call of process executes at most one tool; the
\* block used is the first one of the text: its name is the name looked up,
\* run and written in the tool-result turn; and if the body of that first
\* block is not a JSON object, no later block is considered: process returns
\* the text unmodified after one generation request.
C27_OneBlockPerResponse ==
    (FirstGenerated /\ SeveralBlocks(FirstText))
    => /\ call.executions <= 1
       /\ Len(call.runs) <= 1
       /\ IsObject(BlockBody(FirstText))
            => /\ call.executions = 1
               /\ call.runs = IF IsRegistered(CalledName)
                                 /\ BindsTo(CalledName.str, CalledParameters)
                              THEN <<CalledName.str>> ELSE <<>>
               /\ Hashable(CalledName)
                    => /\ Len(call.sent) = 2
                       /\ KeepsUserTurn => call.sent[2] = ToolResultTurn
       /\ ~IsObject(BlockBody(FirstText)) => PassedThrough

\* a calculator block followed by a time block: the calculator alone runs
C27_Witness ==
    /\ FirstGenerated
    /\ FirstText = Block(<<DocCalc>>) \o <<NL>> \o Block(<<DocTime>>)
    /\ SeveralBlocks(FirstText)
    /\ call.runs = <<calculator>>
    /\ call.executions = 1
    /\ call.generations = 2

\* a malformed block followed by a calculator block: nothing runs
C27_MalformedFirst ==
    /\ FirstGenerated
    /\ FirstText = Block(<<Hi>>) \o <<NL>> \o Block(<<DocCalc>>)
    /\ SeveralBlocks(FirstText)
    /\ tools # <<>>
    /\ PassedThrough

-----------------------------------------------------------------------------
(* The two window buffers side by side: every call is made on an
   InMemoryWindowBufferMemory, whose fields are messages and system_message,
   and on a PersistedWindowBufferMemory of the same window size, whose
   messages are in lists *)

PairInit == Init /\ variant = "InMemoryWindowBufferMemory"

\* the state after the call on both objects: the fields of the first from
\* inmem, the store of the second from persisted
SetPair(inmem, persisted) ==
    /\ Len(inmem_get_messages(inmem)) <= MaxLog
    /\ Len(persisted_get_messages(persisted)) <= MaxLog
    /\ messages' = inmem.messages
    /\ system_message' = inmem.system_message
    /\ lists' = persisted.lists
    /\ hist' = NoHist
    /\ UNCHANGED <<variant, window_size, message_history, tools, clients, outbox, fake_redis, writers, loop>>

PairOps == {"add_message", "clear_messages", "remove_last_message"}

PairAddMessage(role, content) ==
    \E msg \in {NewMessage(role, content)} :
        /\ SetPair(inmem_add_message(Mem, msg), persisted_add_message(Mem, msg))
        /\ call' = Call("add_message", <<msg>>, "", <<>>, 0, 0, <<>>)

PairClearMessages(system_prompt) ==
    /\ SetPair(inmem_clear_messages(Mem, system_prompt),
               persisted_clear_messages(Mem, system_prompt))
    /\ call' = Call("clear_messages", system_prompt, "", <<>>, 0, 0, <<>>)

PairRemoveLastMessage ==
    /\ SetPair(inmem_remove_last_message(Mem), persisted_remove_last_message(Mem))
    /\ call' = Call("remove_last_message", <<>>, "", <<>>, 0, 0, <<>>)

PairNext ==
    \/ \E role \in Roles : \E content \in AddContents(role) : PairAddMessage(role, content)
    \/ PairClearMessages(<<>>)
    \/ \E content \in Contents : PairClearMessages(<<NewMessage("system", content)>>)
    \/ PairRemoveLastMessage

PairSpec == PairInit /\ [][PairNext]_vars

\* all() of the two objects
InMemoryAll == inmem_get_messages(Mem)

PersistedAll == persisted_get_messages(Mem)

\* C28: variant substitutability. For every window size and every sequence
\* of add, clear (with or without a message) and remove_last calls with any
\* mix of roles, the in-process window buffer and the persisted window
\* buffer over a store without faults return the same all() after every call.
C28_Substitutable ==
    call.op \in PairOps => InMemoryAll = PersistedAll

\* the same statement for the window sizes from 1 on
C28_SubstitutableAtPositiveWindow ==
    call.op \in PairOps /\ window_size >= 1 => InMemoryAll = PersistedAll

\* the same statement for the window sizes from 1 on and the calls that
\* leave both objects without a system message
C28_SubstitutableWithoutSystem ==
    (/\ call.op \in PairOps
     /\ window_size >= 1
     /\ SelectSeq(InMemoryAll, IsSystem) = <<>>
     /\ SelectSeq(PersistedAll, IsSystem) = <<>>)
    => InMemoryAll = PersistedAll

\* what the two keep in common at a window size from 1 on: the same number
\* of messages that are not system messages
C28_SameCount ==
    call.op \in PairOps /\ window_size >= 1
    => NonSystemCount(InMemoryAll) <= window_size
       /\ NonSystemCount(PersistedAll) <= window_size

-----------------------------------------------------------------------------
(* The calculator on its own: CalculatorTool.execute over expressions built
   from numbers, names inside and outside safe_dict, attribute access, calls
   and the operators + and / *)

Numbers == {Num(0), Num(2)}

Names == {Name("abs"), Name("foo")}

Attributes ==
    LET first == {Attr(value, name) : value \in Names \cup {Num(2)},
                                      name \in {"__self__", "exit"}}
    IN  first \cup {Attr(value, "exit") : value \in first}

Calls ==
    {CallOf(func, args) : func \in Names \cup Attributes, args \in {<<>>, <<Num(2)>>}}

Operands ==
    Numbers \cup Names
    \cup {Attr(Name("abs"), "__self__"),
          CallOf(Name("abs"), <<Num(2)>>),
          CallOf(Attr(Attr(Name("abs"), "__self__"), "exit"), <<>>)}

Expressions ==
    {Invalid} \cup Numbers \cup Names \cup Attributes \cup Calls
    \cup {BinOp(op, left, right) : op \in {"+", "/"}, left \in Operands, right \in Operands}

CalculatorInit == Init /\ variant = "InMemoryWindowBufferMemory" /\ window_size = MaxWindow

\* CalculatorTool().execute(expression)
CalculatorExecute(expr) ==
    /\ call.op = "init"
    /\ call' = [op |-> "calculator_execute", arg |-> expr,
                raised |-> execute(expr).raised,
                returned |-> execute(expr).returned,
                outside |-> execute(expr).outside]
    /\ UNCHANGED <<variant, window_size, messages, system_message, lists,
                   message_history, tools, clients, outbox, fake_redis, writers, loop, hist>>

CalculatorNext == \E expr \in Expressions : CalculatorExecute(expr)

CalculatorSpec == CalculatorInit /\ [][CalculatorNext]_vars

RECURSIVE ReferencedNames(_)
ReferencedNames(expr) ==
    IF expr.node = "name" THEN {expr.name}
    ELSE IF expr.args = <<>> THEN {}
    ELSE UNION {ReferencedNames(expr.args[i]) : i \in 1..Len(expr.args)}

\* C26: CalculatorTool.execute never raises; an expression that references a
\* name outside safe_dict, divides by zero or is not valid syntax evaluates
\* nothing outside the allow-list and returns a string that starts with
\* "Error evaluating expression: "; "2 + 2" returns "4" and every other
\* expression that evaluates returns the string form of its value
C26_CalculatorSafety ==
    call.op = "calculator_execute"
    => /\ call.raised = ""
       /\ (\/ call.arg = Invalid
           \/ ~(ReferencedNames(call.arg) \subseteq safe_dict)
           \/ evaluate(call.arg).exc = "ZeroDivisionError")
          => /\ ~call.outside
             /\ call.returned # <<>>
             /\ Head(call.returned) = "Error evaluating expression: "
       /\ call.arg = BinOp("+", Num(2), Num(2)) => call.returned = <<"4">>
       /\ evaluate(call.arg).exc = "" => call.returned = <<str(evaluate(call.arg).value)>>

\* the part of C26 that the code keeps: every exception that except Exception
\* names becomes the error string, and a value becomes its string form
C26_ExceptionsBecomeText ==
    call.op = "calculator_execute" /\ call.raised = ""
    => IF evaluate(call.arg).exc = ""
       THEN call.returned = <<str(evaluate(call.arg).value)>>
       ELSE Head(call.returned) = "Error evaluating expression: "

\* an expression over the single allow-listed name abs ends the interpreter
C26_Escapes ==
    call.op = "calculator_execute" => ~(call.raised = "SystemExit"
                                        /\ ReferencedNames(call.arg) \subseteq safe_dict)

\* an expression that references a name outside safe_dict evaluates the
\* builtins module before the name fails
C26_OutsideBeforeError ==
    call.op = "calculator_execute"
    => ~(/\ call.outside
         /\ "foo" \in ReferencedNames(call.arg)
         /\ call.returned = <<"Error evaluating expression: ", "name is not defined">>)

-----------------------------------------------------------------------------
(* The persisted window buffer on its own over a store that fails: one call
   of add_message or of remove_last_message during which one store call
   fails *)

FaultInit == Init /\ variant = "PersistedWindowBufferMemory"

\* the stored list of the messages key
Stored(l) == lrange(l, messages_key)

\* the record of a call over the store: the stored list before it, the list
\* the call leaves on a store without failure, and whether the call raised
StoreCallRecord(op, arg, fault, done, r) ==
    [op |-> op, arg |-> arg, fault |-> fault, before |-> Stored(lists),
     completed |-> Stored(done.lists), calls |-> done.calls,
     raised |-> r.raised]

\* memory.add_message(msg) during which the store fails as fault says; the
\* first failing store call is one of the calls that add_message makes
AddOverStore(role, content) ==
    /\ Len(Stored(lists)) <= MaxLog
    /\ \E msg \in {NewMessage(role, content)} :
       \E done \in {unreliable_add_message(Connection(lists), NoFault, msg)} :
       \E fault \in {f \in Faults : f.first <= done.calls} :
       \E r \in {unreliable_add_message(Connection(lists), fault, msg)} :
        /\ Len(Stored(r.lists)) <= MaxLog
        /\ lists' = r.lists
        /\ call' = StoreCallRecord("add_over_store", <<msg>>, fault, done, r)
    /\ hist' = NoHist
    /\ UNCHANGED <<variant, window_size, messages, system_message,
                   message_history, tools, clients, outbox, fake_redis, writers, loop>>

\* memory.remove_last_message() during which the store fails as fault says
RemoveLastOverStore ==
    /\ \E done \in {unreliable_remove_last_message(Connection(lists), NoFault)} :
       \E fault \in {f \in Faults : f.first <= done.calls} :
       \E r \in {unreliable_remove_last_message(Connection(lists), fault)} :
        /\ lists' = r.lists
        /\ call' = StoreCallRecord("remove_last_over_store", <<>>, fault, done, r)
    /\ hist' = NoHist
    /\ UNCHANGED <<variant, window_size, messages, system_message,
                   message_history, tools, clients, outbox, fake_redis, writers, loop>>

FaultNext ==
    \/ \E role \in Roles : \E content \in AddContents(role) : AddOverStore(role, content)
    \/ RemoveLastOverStore

FaultSpec == FaultInit /\ [][FaultNext]_vars

OverStoreOps == {"add_over_store", "remove_last_over_store"}

\* C31: storage-failure atomicity of the persisted variant. If a store call
\* fails part-way through add_message (during the rebuild that deletes the
\* list and pushes the survivors) or part-way through remove_last_message,
\* the stored list equals either the list before the operation or the list
\* the completed operation would have produced, never a truncated or empty
\* list.
C31_StorageAtomic ==
    call.op \in OverStoreOps /\ call.raised
    => Stored(lists) \in {call.before, call.completed}

\* a failed remove_last_message never leaves an empty list in place of a
\* list that held messages
C31_RemoveLastNeverEmpties ==
    (call.op = "remove_last_over_store" /\ call.raised /\ call.before # <<>>)
    => Stored(lists) # <<>>

\* a failed add_message never leaves fewer messages than both the list
\* before it and the list of the completed call
C31_AddNeverTruncates ==
    call.op = "add_over_store" /\ call.raised
    => \/ Len(Stored(lists)) >= Len(call.before)
       \/ Len(Stored(lists)) >= Len(call.completed)

\* what the code keeps: a call whose first store call fails leaves the list
\* as it was, and a call that fails before the delete leaves every message
\* that was stored
C31_FailureBeforeDelete ==
    (call.op \in OverStoreOps /\ call.raised)
    => /\ call.fault.first = 1 => Stored(lists) = call.before
       /\ (call.fault.first <= (IF call.op = "add_over_store" THEN 2 ELSE 1))
            => SubSeq(Stored(lists), 1, Len(call.before)) = call.before

-----------------------------------------------------------------------------
(* The context of a generation request *)

\* the message list that the chat call of this step sends to the backend
RequestOfChat == chat(Mem, call'.arg[1], Outcome(call'.arg[2], <<>>)).request

\* all() taken after the user turn of the chat call of this step was added
AllAfterUserTurn == get_messages(add_message(Mem, UserMessageOfChat))

EndsWithUserTurn ==
    /\ RequestOfChat # <<>>
    /\ RequestOfChat[Len(RequestOfChat)] = UserMessageOfChat

\* C32: context of a generation request. For every window size from 0 on
\* and every prior history, the ordered message list that chat(user_text)
\* sends to the backend is the full all() taken after the user turn was
\* added, and its last element is the user message with content user_text.
C32_RequestContext ==
    [][call'.op = "chat"
       => /\ RequestOfChat = AllAfterUserTurn
          /\ EndsWithUserTurn]_vars

\* the same statement for the window sizes from 1 on
C32_AtPositiveWindow ==
    [][(call'.op = "chat" /\ (window_size >= 1 \/ variant = "InMemoryStrategy"))
       => /\ RequestOfChat = AllAfterUserTurn
          /\ EndsWithUserTurn]_vars

\* what the code keeps: the request is all() after the add for every window
\* size, and it ends with the user turn on the in-process variants that
\* retain at least one message
C32_RequestIsAll ==
    [][call'.op = "chat"
       => /\ RequestOfChat = AllAfterUserTurn
          /\ (\/ variant = "InMemoryStrategy"
              \/ variant = "InMemoryWindowBufferMemory" /\ window_size >= 1)
               => EndsWithUserTurn]_vars

-----------------------------------------------------------------------------
(* Generation clients and the Memory objects they hold.  A default argument
   is evaluated once, when the def statement runs: memory =
   InMemoryWindowBufferMemory() of LlmClient.__init__ and memory_strategy =
   InMemoryStrategy() of LlmInterfaceFactory.__init__ are each one object,
   clients.memories[DefaultMemory], for every call that omits the argument.
   A holder is an LlmClient (variant InMemoryWindowBufferMemory) or an
   LlmInterface made by its own LlmInterfaceFactory (variant
   InMemoryStrategy) *)

\* the clients constructed in one process
MaxClients == 2

DefaultMemory == 1

SharedInit ==
    /\ Init
    /\ variant \in {"InMemoryWindowBufferMemory", "InMemoryStrategy"}
    /\ variant = "InMemoryWindowBufferMemory" => window_size = MaxWindow

\* the process after the modules are imported: the default object exists
ImportModules ==
    /\ clients = NoClients
    /\ clients' = [memories |-> <<EmptyMem>>, holders |-> <<>>]
    /\ call' = [op |-> "import", client |-> 0, before |-> <<>>, raised |-> ""]
    /\ UNCHANGED <<variant, window_size, messages, system_message, lists,
                   message_history, tools, writers, loop, outbox, fake_redis, hist>>

\* the history a holder returns: get_message_history()
get_message_history(c, i) == get_messages(c.memories[c.holders[i].memory])

Histories(c) == [i \in 1..Len(c.holders) |-> get_message_history(c, i)]

\* the default window of 20 is never reached: a call is made only if the
\* Memory then holds at most window_size messages that are not system
\* messages, and at most MaxLog messages
Keeps(m) ==
    /\ Len(get_messages(m)) <= MaxLog
    /\ variant = "InMemoryWindowBufferMemory"
         => NonSystemCount(get_messages(m)) <= window_size

\* __init__ with the Memory object at index memory: self.memory = memory and
\* the system prompt is added to it
Construct(memories, memory, given, system_prompt) ==
    /\ clients.memories # <<>>
    /\ Len(clients.holders) < MaxClients
    /\ clients' = [memories |-> [memories EXCEPT
                                   ![memory] = client_init(@, system_prompt)],
                   holders |-> Append(clients.holders,
                                      [memory |-> memory, given |-> given])]
    /\ call' = [op |-> "construct", client |-> Len(clients.holders) + 1,
                before |-> Histories(clients), raised |-> ""]
    /\ UNCHANGED <<variant, window_size, messages, system_message, lists,
                   message_history, tools, writers, loop, outbox, fake_redis, hist>>

\* LlmClient(system_prompt=...) and LlmInterfaceFactory(model, api_key,
\* base_url).create(system_prompt): the memory argument is omitted
ConstructWithDefault(system_prompt) ==
    Construct(clients.memories, DefaultMemory, FALSE, system_prompt)

\* the caller passes a Memory object it has just made
ConstructWithMemory(system_prompt) ==
    Construct(Append(clients.memories, EmptyMem), Len(clients.memories) + 1,
              TRUE, system_prompt)

\* holder i: chat(user_message)
ClientChat(i, user_message, outcome) ==
    /\ i \in 1..Len(clients.holders)
    /\ \E memory \in {clients.holders[i].memory} :
       \E r \in {chat(clients.memories[memory], user_message, outcome)} :
        /\ Keeps(r.mem)
        /\ Keeps(add_message(clients.memories[memory], NewMessage("user", user_message)))
        /\ clients' = [clients EXCEPT !.memories[memory] = r.mem]
        /\ call' = [op |-> "client_chat", client |-> i,
                    before |-> Histories(clients), raised |-> r.raised]
    /\ UNCHANGED <<variant, window_size, messages, system_message, lists,
                   message_history, tools, writers, loop, outbox, fake_redis, hist>>

SharedOutcomes == {Outcome("content", <<"a">>), Outcome("APIError", <<>>)}

SharedNext ==
    \/ ImportModules
    \/ \E content \in Contents : ConstructWithDefault(content)
    \/ \E content \in Contents : ConstructWithMemory(content)
    \/ \E i \in 1..MaxClients, content \in Contents, outcome \in SharedOutcomes :
         ClientChat(i, content, outcome)

SharedSpec == SharedInit /\ [][SharedNext]_vars

\* holders i and j were both constructed without a memory argument
BothDefault(i, j) == ~clients.holders[i].given /\ ~clients.holders[j].given

\* C33: no shared default memory. Two generation clients (or the clients of
\* two factories) constructed without an explicit memory argument hold
\* independent histories: a chat on one never changes the message history
\* that the other returns.
C33_NoSharedDefault ==
    call.op = "client_chat"
    => \A j \in 1..Len(clients.holders) :
         (j # call.client /\ BothDefault(call.client, j))
         => get_message_history(clients, j) = call.before[j]

\* constructing a second client without a memory argument leaves the
\* history of the first as it was
C33_ConstructionIndependent ==
    call.op = "construct" /\ ~clients.holders[call.client].given
    => \A j \in 1..Len(call.before) :
         ~clients.holders[j].given
         => get_message_history(clients, j) = call.before[j]

\* what the code keeps: a client that was given its own Memory object shares
\* no history with any other client
C33_GivenMemoryIndependent ==
    call.op \in {"client_chat", "construct"}
    => \A j \in 1..Len(call.before) :
         (j # call.client /\ ~BothDefault(call.client, j))
         => get_message_history(clients, j) = call.before[j]

-----------------------------------------------------------------------------
(* The handlers of the bot over the persisted Memory: each update is handled
   to its end before the next one (one event loop, no await between the
   Memory operations of a handler).  outbox holds the texts sent while the
   last update was handled *)

\* the messages of the list chat:memory:messages at which no further update
\* is handled
MaxForgetLog == 6

\* tools = [CalculatorTool(), TimeTool()]
HandlerTools == <<calculator, get_current_time>>

AmnesiaReply == "Zzzzzap! All gone."

Refusal == "You are not authorized to use this bot."

Apology == "Oopsie! It seems your broke something with your request :(. Please try again later!"

TELEGRAM_AUTHORIZED_USERNAME == "owner"

\* update.effective_user is None
NoUser == "no effective user"

\* user.username of the effective user; "None" is a user without username
Usernames == {TELEGRAM_AUTHORIZED_USERNAME, "other", "None"}

\* an update: the username of its effective user, whether update.message is
\* set (an edited message or a channel post has none), the handler that the
\* Application finds for it, and its text
Update(effective_user, message, handler, text) ==
    [effective_user |-> effective_user, message |-> message,
     handler |-> handler, text |-> text]

\* what a handler leaves: the Memory, the exception that leaves it ("" if
\* none), the texts sent, the generation requests made, whether a Memory
\* operation was called, the first context sent, whether the handler wrapped
\* by authorized was invoked
Handled(m, raised, sent, generations, memory_ops, context) ==
    [mem |-> m, raised |-> raised, sent |-> sent, generations |-> generations,
     memory_ops |-> memory_ops, context |-> context, invoked |-> FALSE]

\* await update.message.reply_text(text) at the end of a handler that left
\* done: the text is sent, or the request to Telegram raises
reply_text(done, text, sending) ==
    IF sending THEN [done EXCEPT !.sent = Append(@, text)]
    ELSE [done EXCEPT !.raised = "NetworkError"]

\* the test of a wrapper that lets every update with an effective user in
any_user(update) == update.effective_user # NoUser

\* user and user.username == settings.TELEGRAM_AUTHORIZED_USERNAME
authorized_user(update) ==
    /\ update.effective_user # NoUser
    /\ update.effective_user = TELEGRAM_AUTHORIZED_USERNAME

\* handle_message(update, _): update.message.text of an update without
\* message raises AttributeError before anything else; then a Memory over the
\* list, an Agent over it, whose client adds the system prompt, process on
\* the text and the reply with the response; an exception of process leaves
\* the handler before the reply
handle_message(m, update, outcome1, outcome2, sending) ==
    IF ~update.message
    THEN Handled(m, "AttributeError", <<>>, 0, FALSE, <<>>)
    ELSE Once(process(client_init(m, create_system_prompt(HandlerTools)),
                      HandlerTools, update.text, outcome1, outcome2, Midnight),
              LAMBDA response :
                Once(Handled(response.mem, response.raised, <<>>,
                             response.generations, TRUE, response.requests[1]),
                     LAMBDA done :
                       IF response.raised # "" THEN done
                       ELSE reply_text(done, response.returned, sending)))

\* amnesia(update, _): clear_messages() of a PersistedWindowBufferMemory,
\* then the reply, which raises AttributeError for an update without message
amnesia(m, update, sending) ==
    Once(Handled(persisted_clear_messages(m, <<>>), "", <<>>, 0, TRUE, <<>>),
         LAMBDA done :
           IF ~update.message THEN [done EXCEPT !.raised = "AttributeError"]
           ELSE reply_text(done, AmnesiaReply, sending))

\* the handler that the Application found for the update
handler(m, update, outcome1, outcome2, sending) ==
    IF update.handler = "handle_message"
    THEN handle_message(m, update, outcome1, outcome2, sending)
    ELSE amnesia(m, update, sending)

\* authorized(handler): the wrapper that the Application calls
wrapper(m, update, outcome1, outcome2, sending) ==
    IF authorized_user(update)
    THEN [handler(m, update, outcome1, outcome2, sending) EXCEPT !.invoked = TRUE]
    ELSE IF update.message
    THEN reply_text(Handled(m, "", <<>>, 0, FALSE, <<>>), Refusal, sending)
    ELSE Handled(m, "", <<>>, 0, FALSE, <<>>)

\* the default window of 20 is not reached by the histories considered
ForgetInit ==
    /\ variant = "PersistedWindowBufferMemory"
    /\ window_size = RoundTripWindow
    /\ messages = <<>>
    /\ system_message = <<>>
    /\ lists = <<>>
    /\ message_history = <<>>
    /\ tools = HandlerTools
    /\ writers = <<>>
    /\ loop = NoTasks
    /\ clients = NoClients
    /\ outbox = <<>>
    /\ fake_redis = NewFakeRedis
    /\ call = [op |-> "init", arg |-> <<>>, previous |-> "", forgotten |-> <<>>,
               context |-> <<>>, raised |-> ""]
    /\ hist = NoHist

\* an update of the authorized user that carries a message
FromOwner(handler_name, text) ==
    Update(TELEGRAM_AUTHORIZED_USERNAME, TRUE, handler_name, text)

\* the histories considered: below the window and at most MaxForgetLog long
InReach(done) ==
    /\ NonSystemCount(get_messages(Mem)) + 2 * done.generations <= window_size
    /\ Len(get_messages(done.mem)) <= MaxForgetLog

\* a text message of the authorized user, answered
HandleMessage(text, outcome1) ==
    /\ \E p \in {handle_message(Mem, FromOwner("handle_message", text), outcome1,
                                NoOutcome, TRUE)} :
       \E outcome2 \in (IF p.generations = 2 THEN StorageSecondOutcomes ELSE {NoOutcome}) :
       \E r \in {IF outcome2 = NoOutcome THEN p
                 ELSE handle_message(Mem, FromOwner("handle_message", text),
                                     outcome1, outcome2, TRUE)} :
        /\ InReach(r)
        /\ SetMem(r.mem)
        /\ outbox' = r.sent
        /\ call' = [op |-> "handle_message", arg |-> <<text, outcome1.kind>>,
                    previous |-> call.op,
                    forgotten |-> IF call.op = "amnesia" THEN call.forgotten ELSE <<>>,
                    context |-> r.context,
                    raised |-> r.raised]
    /\ hist' = NoHist
    /\ UNCHANGED <<variant, window_size, tools, writers, loop, clients, fake_redis>>

\* /amnesia of the authorized user
Amnesia ==
    /\ \E r \in {amnesia(Mem, FromOwner("amnesia", <<>>), TRUE)} :
        /\ SetMem(r.mem)
        /\ outbox' = r.sent
    /\ call' = [op |-> "amnesia", arg |-> <<>>, previous |-> call.op,
                forgotten |-> persisted_get_messages(Mem),
                context |-> <<>>, raised |-> ""]
    /\ hist' = NoHist
    /\ UNCHANGED <<variant, window_size, tools, writers, loop, clients, fake_redis>>

ForgetNext ==
    \/ \E text \in Contents, outcome1 \in StorageFirstOutcomes : HandleMessage(text, outcome1)
    \/ Amnesia

ForgetSpec == ForgetInit /\ [][ForgetNext]_vars

\* C34: forget. After the amnesia handler has run the persisted Memory is
\* empty, and the context that the next handle_message turn sends to the
\* backend is exactly the system prompt followed by the user message with the
\* new text: it holds no message added before the amnesia.
C34_Forget ==
    /\ call.op = "amnesia" => persisted_get_messages(Mem) = <<>>
    /\ (call.op = "handle_message" /\ call.previous = "amnesia")
       => call.context = << NewMessage("system", create_system_prompt(HandlerTools)),
                            NewMessage("user", call.arg[1]) >>

\* a turn after an amnesia that forgot the messages of an earlier turn
C34_Witness ==
    /\ call.op = "handle_message"
    /\ call.previous = "amnesia"
    /\ Len(call.forgotten) >= 3
    /\ Len(call.context) = 2
    /\ outbox # <<>>

\* without an amnesia in between the context holds the earlier turns
C34_ContextWithoutAmnesia ==
    (call.op = "handle_message" /\ call.previous = "handle_message")
    => Len(call.context) > 2

-----------------------------------------------------------------------------
(* The webhook: POST /telegram/webhook runs process_update(request), which
   parses the body, builds the Update and has the Application call the
   wrapper of the handler found for it *)

\* what request.json() and Update.de_json make of the body: json() raises,
\* de_json raises, de_json returns None, or an Update is built
RequestBodies == {"not JSON", "not an update", "None", "update"}

NoUpdate == Update(NoUser, FALSE, "", <<>>)

Updates ==
    {Update(user, message, handler_name, <<"a">>) :
        user \in {NoUser} \cup Usernames, message \in BOOLEAN,
        handler_name \in {"handle_message", "amnesia"}}

\* the response of the server: the Response of the endpoint, or none when an
\* exception leaves the endpoint
HTTP_OK == "200 OK"

NoResponse == "an exception leaves the endpoint"

BotFirstOutcomes ==
    StorageFirstOutcomes \cup {Outcome("content", Block(<<DocCalcExit>>))}

\* await ptb.process_update(update): an exception that leaves the wrapper
\* leaves process_update too, unless it is an Exception and the Application
\* absorbs it (it passes the exceptions of handlers to its error handlers)
ptb_process_update(m, update, outcome1, outcome2, sending, absorbs) ==
    Once(wrapper(m, update, outcome1, outcome2, sending),
         LAMBDA done :
           IF absorbs /\ done.raised # "" /\ done.raised \notin BaseExceptions
           THEN [done EXCEPT !.raised = ""]
           ELSE done)

\* the except Exception clause of process_update: the apology is sent if the
\* update has a message, and a failure to send it is logged
except_Exception(done, update, apology) ==
    IF update.message /\ apology
    THEN [done EXCEPT !.raised = "", !.sent = Append(@, Apology)]
    ELSE [done EXCEPT !.raised = ""]

\* process_update(request) of src/api/routes.py: the handler result and the
\* status of the response.  An exception of request.json() or of
\* Update.de_json reaches the except clause before update is assigned, where
\* reading update raises UnboundLocalError; an exception that is not an
\* Exception passes the except clause
process_update(m, body, update, outcome1, outcome2, sending, absorbs, apology) ==
    IF body \in {"not JSON", "not an update"}
    THEN [Handled(m, "", <<>>, 0, FALSE, <<>>) EXCEPT !.raised = "UnboundLocalError"]
    ELSE IF body = "None" THEN Handled(m, "", <<>>, 0, FALSE, <<>>)
    ELSE Once(ptb_process_update(m, update, outcome1, outcome2, sending, absorbs),
              LAMBDA done :
                IF done.raised = "" THEN done
                ELSE IF done.raised \in BaseExceptions THEN done
                ELSE except_Exception(done, update, apology))

\* the messages of the list chat:memory:messages after a request
MaxBotLog == 3

\* a request to the webhook over the histories of at most MaxBotLog
\* messages; the second response is drawn only if process asks for it
Webhook(body, update) ==
    /\ \E sending \in BOOLEAN, absorbs \in BOOLEAN, apology \in BOOLEAN :
       \E outcome1 \in (IF body = "update" /\ authorized_user(update)
                           /\ update.handler = "handle_message" /\ update.message
                        THEN BotFirstOutcomes ELSE {NoOutcome}) :
       \E p \in {process_update(Mem, body, update, outcome1, NoOutcome, sending,
                                absorbs, apology)} :
       \E outcome2 \in (IF p.generations = 2 THEN StorageSecondOutcomes ELSE {NoOutcome}) :
       \E r \in {IF outcome2 = NoOutcome THEN p
                 ELSE process_update(Mem, body, update, outcome1, outcome2, sending,
                                     absorbs, apology)} :
        /\ InReach(r)
        /\ Len(get_messages(r.mem)) <= MaxBotLog
        /\ SetMem(r.mem)
        /\ outbox' = r.sent
        /\ call' = [op |-> "webhook", body |-> body, update |-> update,
                    outcome |-> outcome1.kind,
                    status |-> IF r.raised = "" THEN HTTP_OK ELSE NoResponse,
                    raised |-> r.raised,
                    invoked |-> r.invoked,
                    generations |-> r.generations,
                    memory_ops |-> r.memory_ops,
                    memory_kept |-> r.mem = Mem,
                    sending |-> sending, apology |-> apology, absorbs |-> absorbs]
    /\ hist' = NoHist
    /\ UNCHANGED <<variant, window_size, tools, writers, loop, clients, fake_redis>>

BotNext ==
    \/ \E body \in RequestBodies \ {"update"} : Webhook(body, NoUpdate)
    \/ \E update \in Updates : Webhook("update", update)

BotSpec == ForgetInit /\ [][BotNext]_vars

\* C35: the webhook always acknowledges. The endpoint returns HTTP 200 for
\* every request, including requests whose body cannot be parsed as JSON or
\* as an update and requests whose handler raises; a failure while sending
\* the apology message does not change this.
C35_AlwaysAcknowledges ==
    call.op = "webhook" => call.status = HTTP_OK

\* the same statement for the bodies from which an Update is built
C35_AcknowledgesUpdates ==
    call.op = "webhook" /\ call.body = "update" => call.status = HTTP_OK

\* what the code keeps: a request whose body gives an Update or None is
\* acknowledged unless an exception that is not an Exception leaves the
\* handler, whether or not the apology can be sent
C35_AcknowledgesHandlerFaults ==
    (call.op = "webhook" /\ call.body \in {"update", "None"}
        /\ call.raised \notin BaseExceptions)
    => call.status = HTTP_OK

\* C36: the authorization gate. A handler wrapped by authorized is invoked
\* only when the update has an effective user whose username equals the
\* configured authorized username; for every other update the wrapped
\* handler, and with it Agent.process and every Memory operation, is never
\* invoked, and the refusal text is sent only when the update carries a
\* message.
C36_AuthorizationGate ==
    call.op = "webhook" /\ call.body = "update"
    => /\ call.invoked
         <=> (call.update.effective_user # NoUser
              /\ call.update.effective_user = TELEGRAM_AUTHORIZED_USERNAME)
       /\ ~call.invoked
            => /\ call.generations = 0
               /\ ~call.memory_ops
               /\ call.memory_kept
               /\ \A i \in 1..Len(outbox) : outbox[i] \in {Refusal, Apology}
       /\ (\E i \in 1..Len(outbox) : outbox[i] = Refusal)
            => call.update.message /\ ~call.invoked
       /\ (~call.invoked /\ call.update.message /\ call.sending)
            => outbox = <<Refusal>>

\* an update of another user that carries a message is refused, with the
\* Memory holding the turns of the authorized user
C36_Witness ==
    /\ call.op = "webhook"
    /\ call.body = "update"
    /\ call.update.effective_user = "other"
    /\ call.update.message
    /\ ~call.invoked
    /\ outbox = <<Refusal>>
    /\ Len(persisted_get_messages(Mem)) >= 3

\* an update of a user without username is not let in
C36_NoUsername ==
    (call.op = "webhook" /\ call.body = "update" /\ call.update.effective_user = "None")
    => ~call.invoked

-----------------------------------------------------------------------------
(* FakeRedisAdapter: the dictionaries _data, _expiries, _hashes and _lists
   and the clock that time.time() reads.  A dictionary is a function whose
   domain is the set of its keys.  A method leaves the adapter, the exception
   raised ("" if none) and the value returned *)

\* the depth of calls at which Python raises RecursionError
RecursionLimit == 4

\* the latest time of the clock
MaxTime == 3

\* the longest list kept under a key
MaxFakeList == 2

Keys == {"k"}

PyNoneValue == "None"

DictWithout(d, key) == [k \in DOMAIN d \ {key} |-> d[k]]

DictWith(d, key, value) == [k \in DOMAIN d \cup {key} |-> IF k = key THEN value ELSE d[k]]

Done(r, value) == [r |-> r, raised |-> "", value |-> value]

RecursionError(r) == [r |-> r, raised |-> "RecursionError", value |-> PyNoneValue]

\* the expiry time of the key has passed:
\* key in self._expiries and self._expiries[key] < time.time()
Expired(r, key) == key \in DOMAIN r.expiries /\ r.expiries[key] < r.time

\* the adapter with the key in none of its dictionaries
Absent(r, key) ==
    [r EXCEPT !.data = DictWithout(@, key), !.expiries = DictWithout(@, key),
              !.hashes = DictWithout(@, key), !.lists = DictWithout(@, key)]

\* a _check_expiry that removes the key from every dictionary itself
check_expiry_removing(r, key, depth) ==
    IF depth > RecursionLimit THEN RecursionError(r)
    ELSE IF Expired(r, key) THEN Done(Absent(r, key), PyNoneValue)
    ELSE Done(r, PyNoneValue)

RECURSIVE check_expiry(_, _, _)
RECURSIVE fake_delete(_, _, _)

\* FakeRedisAdapter._check_expiry, called at the given depth of calls: for a
\* key whose expiry has passed it calls self.delete(key) while the key is
\* still in _expiries
check_expiry(r, key, depth) ==
    IF depth > RecursionLimit THEN RecursionError(r)
    ELSE IF Expired(r, key)
    THEN Once(fake_delete(r, key, depth + 1),
              LAMBDA deleted :
                IF deleted.raised # "" THEN deleted
                ELSE Done([deleted.r EXCEPT !.hashes = DictWithout(@, key),
                                            !.lists = DictWithout(@, key)],
                          PyNoneValue))
    ELSE Done(r, PyNoneValue)

\* FakeRedisAdapter.delete: it starts with self._check_expiry(key)
fake_delete(r, key, depth) ==
    IF depth > RecursionLimit THEN RecursionError(r)
    ELSE Once(check_expiry(r, key, depth + 1),
              LAMBDA checked :
                IF checked.raised # "" THEN checked
                ELSE Done(Absent(checked.r, key),
                          \/ key \in DOMAIN checked.r.data
                          \/ key \in DOMAIN checked.r.expiries
                          \/ key \in DOMAIN checked.r.hashes
                          \/ key \in DOMAIN checked.r.lists))

\* FakeRedisAdapter.set; expiry 0 stands for None
fake_set(r, key, value, expiry) ==
    Once(check_expiry(r, key, 2),
         LAMBDA checked :
           IF checked.raised # "" THEN checked
           ELSE Done([checked.r EXCEPT
                        !.data = DictWith(@, key, value),
                        !.expiries = IF expiry # 0
                                     THEN DictWith(@, key, checked.r.time + expiry)
                                     ELSE DictWithout(@, key)],
                     TRUE))

\* FakeRedisAdapter.get
fake_get(r, key) ==
    Once(check_expiry(r, key, 2),
         LAMBDA checked :
           IF checked.raised # "" THEN checked
           ELSE Done(checked.r, IF key \in DOMAIN checked.r.data
                                THEN checked.r.data[key] ELSE PyNoneValue))

\* FakeRedisAdapter.exists
fake_exists(r, key) ==
    Once(check_expiry(r, key, 2),
         LAMBDA checked :
           IF checked.raised # "" THEN checked
           ELSE Done(checked.r, \/ key \in DOMAIN checked.r.data
                                \/ key \in DOMAIN checked.r.hashes
                                \/ key \in DOMAIN checked.r.lists))

\* FakeRedisAdapter.rpush of one value
fake_rpush(r, name, value) ==
    Once(check_expiry(r, name, 2),
         LAMBDA checked :
           IF checked.raised # "" THEN checked
           ELSE LET list == IF name \in DOMAIN checked.r.lists
                            THEN checked.r.lists[name] ELSE <<>>
                IN  Done([checked.r EXCEPT !.lists = DictWith(@, name, Append(list, value))],
                         Len(list) + 1))

\* FakeRedisAdapter.lrange(name, 0, -1)
fake_lrange(r, name) ==
    Once(check_expiry(r, name, 2),
         LAMBDA checked :
           IF checked.raised # "" THEN checked
           ELSE Done(checked.r, IF name \in DOMAIN checked.r.lists
                                THEN checked.r.lists[name] ELSE <<>>))

FakeOps == {"set", "get", "delete", "exists", "rpush", "lrange"}

\* the method op of the adapter r on the key
FakeMethod(op, r, key, value, expiry) ==
    CASE op = "set" -> fake_set(r, key, value, expiry)
      [] op = "get" -> fake_get(r, key)
      [] op = "delete" -> fake_delete(r, key, 1)
      [] op = "exists" -> fake_exists(r, key)
      [] op = "rpush" -> fake_rpush(r, key, value)
      [] op = "lrange" -> fake_lrange(r, key)

FakeInit == Init /\ variant = "PersistedWindowBufferMemory" /\ window_size = MaxWindow

\* a call of a method of the adapter; the record keeps whether the expiry of
\* the key had passed and what the method does when the key is absent
FakeCall(op, key, value, expiry) ==
    /\ op \in {"set", "rpush"} \/ (value = "v" /\ expiry = 0)
    /\ op = "rpush" => expiry = 0
    /\ \E done \in {FakeMethod(op, fake_redis, key, value, expiry)} :
        /\ \A k \in DOMAIN done.r.lists : Len(done.r.lists[k]) <= MaxFakeList
        /\ fake_redis' = done.r
        /\ call' = [op |-> op, key |-> key, expired |-> Expired(fake_redis, key),
                    raised |-> done.raised, returned |-> done.value,
                    on_absent |-> FakeMethod(op, Absent(fake_redis, key), key,
                                             value, expiry)]
    /\ UNCHANGED <<variant, window_size, messages, system_message, lists,
                   message_history, tools, writers, loop, clients, outbox, hist>>

\* time passes
Tick ==
    /\ fake_redis.time < MaxTime
    /\ fake_redis' = [fake_redis EXCEPT !.time = @ + 1]
    /\ call' = [op |-> "tick", key |-> "", expired |-> FALSE, raised |-> "",
                returned |-> PyNoneValue, on_absent |-> Done(fake_redis, PyNoneValue)]
    /\ UNCHANGED <<variant, window_size, messages, system_message, lists,
                   message_history, tools, writers, loop, clients, outbox, hist>>

FakeNext ==
    \/ \E op \in FakeOps, key \in Keys, value \in {"v", "w"}, expiry \in 0..1 :
         FakeCall(op, key, value, expiry)
    \/ Tick

FakeSpec == FakeInit /\ [][FakeNext]_vars

\* C37: fake store expiry terminates. Every operation of FakeRedisAdapter
\* (get, set, delete, exists, rpush, lrange) on a key whose expiry time has
\* passed terminates, removes the key and then behaves as if the key were
\* absent.
C37_ExpiryTerminates ==
    (call.op \in FakeOps /\ call.expired)
    => /\ call.raised = ""
       /\ fake_redis = call.on_absent.r
       /\ call.returned = call.on_absent.value

\* an operation that reads a key whose expiry has passed removes the key
C37_ExpiredKeyIsRemoved ==
    (call.op \in FakeOps \ {"set", "rpush"} /\ call.expired)
    => /\ call.key \notin DOMAIN fake_redis.data
       /\ call.key \notin DOMAIN fake_redis.expiries
       /\ call.key \notin DOMAIN fake_redis.lists

\* what the code keeps: an operation on a key whose expiry has not passed
\* raises nothing
C37_LiveKeys ==
    (call.op \in FakeOps /\ ~call.expired) => call.raised = ""

-----------------------------------------------------------------------------
(* The currensee handler: the exchange rates are read from the key
   CACHE_KEY of the store, or fetched from the page and written to the key
   for CACHE_TTL.  The store is the record fake_redis with the expiry of
   Redis itself: a key is gone once its time to live has passed.  The clock
   counts hours *)

CACHE_KEY == "exchange_rates"

\* 3 * 60 * 60 seconds
CACHE_TTL == 3

\* the latest hour of the clock
MaxHours == 5

ERROR_FETCH_FAILED == "Looks like the market hamsters are on a coffee break. Couldn't fetch the rates just now!"

ERROR_CACHE == "The cache seems to be playing hide-and-seek. Couldn't retrieve rates due to cache shenanigans."

ERROR_UNEXPECTED == "Uh oh! Something went sideways in the matrix while fetching rates. Maybe try again?"

ErrorTexts == {ERROR_FETCH_FAILED, ERROR_CACHE, ERROR_UNEXPECTED}

\* the names of ITEMS_TO_SCRAPE
ITEMS_TO_SCRAPE ==
    <<"USD", "EUR", "Azadi", "Emami", "Half Azadi", "Quarter Azadi", "Gold 18">>

\* fetch_html returns nothing
NoPage == [html |-> FALSE, prices |-> <<>>]

\* a page gives the price of the items it has a price tag for
Pages ==
    { NoPage,
      [html |-> TRUE, prices |-> [name \in {"USD"} |-> 95000]],
      [html |-> TRUE,
       prices |-> [name \in {ITEMS_TO_SCRAPE[i] : i \in 1..Len(ITEMS_TO_SCRAPE)} |->
                      IF name = "USD" THEN 96500 ELSE 700]] }

ExchangeRateItem(name, price) == [name |-> name, price |-> price]

\* _fetch_fresh_exchange_rates: [] without a page, else one item for each of
\* ITEMS_TO_SCRAPE with the price of the page or None
fetch_fresh_exchange_rates(page) ==
    IF ~page.html THEN <<>>
    ELSE [i \in 1..Len(ITEMS_TO_SCRAPE) |->
            ExchangeRateItem(ITEMS_TO_SCRAPE[i],
                             IF ITEMS_TO_SCRAPE[i] \in DOMAIN page.prices
                             THEN PyInt(page.prices[ITEMS_TO_SCRAPE[i]])
                             ELSE PyNone)]

\* json.dumps([asdict(item) for item in rates]): the text of a list of
\* objects with the members name and price
rates_dumps(rates) ==
    [type |-> "str",
     json |-> [i \in 1..Len(rates) |->
                 <<<<"name", rates[i].name>>, <<"price", rates[i].price>>>>]]

\* [ExchangeRateItem(**item) for item in json.loads(text)]
rates_loads(text) ==
    [i \in 1..Len(text.json) |->
        ExchangeRateItem(text.json[i][1][2], text.json[i][2][2])]

RECURSIVE Thousands(_)
\* f"{price:,}": the groups of three digits of the price
Thousands(n) == IF n < 1000 THEN <<n>> ELSE Append(Thousands(n \div 1000), n % 1000)

\* a reply: its first line and the lines after it
Reply(text, lines) == [text |-> text, lines |-> lines]

\* _format_rates_in_markdown_v2: the heading and a line for each item, with
\* the price or Not Available
format_rates(rates) ==
    Reply("<b>Exchange Rates:</b>",
          [i \in 1..Len(rates) |->
              [name |-> rates[i].name,
               available |-> rates[i].price # PyNone,
               price |-> IF rates[i].price # PyNone
                         THEN Thousands(rates[i].price.int) ELSE <<>>]])

\* RedisAdapter.get over Redis
redis_get(r, key) ==
    IF key \in DOMAIN r.data /\ (key \in DOMAIN r.expiries => r.time < r.expiries[key])
    THEN r.data[key] ELSE PyNone

\* RedisAdapter.set over Redis with ex=expiry
redis_set(r, key, value, expiry) ==
    [r EXCEPT !.data = DictWith(@, key, value),
              !.expiries = DictWith(@, key, r.time + expiry)]

\* an except clause that names the class RedisAdapterError of the module:
\* the exception it finds, "" when the clause handles it
except_RedisAdapterError(exception) ==
    IF exception = "RedisAdapterError" THEN "" ELSE exception

\* except redis_adapter.RedisAdapterError: the expression is evaluated when
\* an exception reaches the clause, redis_adapter is the adapter object, which
\* has no attribute of this name, and the AttributeError replaces the
\* exception
except_redis_adapter_RedisAdapterError(exception) == "AttributeError"

\* what the handler leaves: the store, the exception that leaves it, the
\* replies sent, the rates it found
Fetched(r, raised, rates) == [r |-> r, raised |-> raised, rates |-> rates]

\* _fetch_and_cache_rates: a store error of set reaches the first except
\* clause of the try; the TypeError clause is reached when that clause lets
\* the exception pass
fetch_and_cache_rates(r, page, set_fault) ==
    LET rates == fetch_fresh_exchange_rates(page)
    IN  IF rates = <<>> THEN Fetched(r, "", rates)
        ELSE IF set_fault
        THEN Fetched(r, except_redis_adapter_RedisAdapterError("RedisAdapterError"), rates)
        ELSE Fetched(redis_set(r, CACHE_KEY, rates_dumps(rates), CACHE_TTL), "", rates)

\* the try of currensee up to its except clauses
currensee_try(r, get_fault, page, set_fault) ==
    IF get_fault THEN Fetched(r, "RedisAdapterError", <<>>)
    ELSE LET cached_rates_json == redis_get(r, CACHE_KEY)
         IN  IF cached_rates_json # PyNone
             THEN Fetched(r, "", rates_loads(cached_rates_json))
             ELSE fetch_and_cache_rates(r, page, set_fault)

\* currensee behind the authorized wrapper: the adapter of the factory, the
\* try, its except clauses, and the reply when the update has a message
currensee(r, update, get_fault, page, set_fault) ==
    IF ~authorized_user(update)
    THEN [r |-> r, raised |-> "", invoked |-> FALSE,
          sent |-> IF update.message THEN <<Reply(Refusal, <<>>)>> ELSE <<>>]
    ELSE LET tried == currensee_try(r, get_fault, page, set_fault)
             found == IF tried.raised = "" THEN ""
                      ELSE except_redis_adapter_RedisAdapterError(tried.raised)
             response_message ==
                 IF tried.raised = ""
                 THEN IF tried.rates # <<>> THEN format_rates(tried.rates)
                      ELSE Reply(ERROR_FETCH_FAILED, <<>>)
                 ELSE Reply(ERROR_CACHE, <<>>)
         IN  [r |-> tried.r, raised |-> found, invoked |-> TRUE,
              sent |-> IF found = "" /\ update.message
                       THEN <<response_message>> ELSE <<>>]

CurrenseeInit == ForgetInit

\* an update with the command of the handler
Currensee(update, get_fault, page, set_fault) ==
    /\ \E done \in {currensee(fake_redis, update, get_fault, page, set_fault)} :
        /\ fake_redis' = done.r
        /\ outbox' = done.sent
        /\ call' = [op |-> "currensee", update |-> update,
                    cached |-> ~get_fault /\ redis_get(fake_redis, CACHE_KEY) # PyNone,
                    get_fault |-> get_fault, page |-> page, set_fault |-> set_fault,
                    invoked |-> done.invoked, raised |-> done.raised]
    /\ UNCHANGED <<variant, window_size, messages, system_message, lists,
                   message_history, tools, writers, loop, clients, hist>>

\* an hour passes
Hour ==
    /\ fake_redis.time < MaxHours
    /\ fake_redis' = [fake_redis EXCEPT !.time = @ + 1]
    /\ UNCHANGED <<variant, window_size, messages, system_message, lists,
                   message_history, tools, writers, loop, clients, outbox,
                   call, hist>>

CurrenseeNext ==
    \/ \E user \in {TELEGRAM_AUTHORIZED_USERNAME, "other"}, message \in BOOLEAN,
          get_fault \in BOOLEAN, page \in Pages, set_fault \in BOOLEAN :
         Currensee(Update(user, message, "currensee", "/currensee"),
                   get_fault, page, set_fault)
    \/ Hour

CurrenseeSpec == CurrenseeInit /\ [][CurrenseeNext]_vars

\* the handler ran on a cache miss, the fetch gave rates and the write of
\* the rates to the cache failed with a store error
WriteFailed ==
    /\ call.op = "currensee" /\ call.invoked
    /\ ~call.get_fault /\ ~call.cached
    /\ call.page # NoPage /\ call.set_fault

\* C38: exchange-rate cache degradation. In the currensee handler, on a cache
\* miss where the fresh fetch succeeds but writing the rates to the cache
\* fails with a store error, the handler still replies with the formatted
\* fetched rates; and whenever the update carries a message the handler sends
\* exactly one reply (rates or one of the three error texts).
C38_CacheDegradation ==
    /\ (WriteFailed /\ call.update.message)
       => outbox = <<format_rates(fetch_fresh_exchange_rates(call.page))>>
    /\ (call.op = "currensee" /\ call.invoked /\ call.update.message)
       => /\ Len(outbox) = 1
          /\ \/ outbox[1].text \in ErrorTexts /\ outbox[1].lines = <<>>
             \/ \E page \in Pages \ {NoPage} :
                  outbox[1] = format_rates(fetch_fresh_exchange_rates(page))

\* the second half alone: a handler that ran on an update with a message
\* sent exactly one reply
C38_OneReply ==
    (call.op = "currensee" /\ call.invoked /\ call.update.message)
    => Len(outbox) = 1

\* what the code keeps: without an exception in the try the handler sends
\* exactly one reply, the rates of the cache or of the page, or
\* ERROR_FETCH_FAILED when the page gave none
C38_WithoutStoreFaults ==
    (/\ call.op = "currensee" /\ call.invoked /\ call.update.message
     /\ ~call.get_fault /\ (call.cached \/ call.page = NoPage \/ ~call.set_fault))
    => /\ Len(outbox) = 1
       /\ call.raised = ""
       /\ (~call.cached /\ call.page = NoPage) <=> outbox[1].text = ERROR_FETCH_FAILED

====
